---- MODULE Spec2Model ----
(***************************************************************************)
(* Bedtime story generator (main.py): a linear pipeline                    *)
(*   ensure_api_key -> request -> Classifier -> Storyteller ->             *)
(*   Internal QC Loop (Judge / Reviser) -> User Feedback Loop -> print.    *)
(* Every completion call (chat_once) and every read of standard input is   *)
(* one step of the single thread that runs main().                         *)
(***************************************************************************)
EXTENDS Integers, Sequences, FiniteSets, TLC

\* ------------------------------------------------------------------ config
MAX_INTERNAL_REVISIONS == 1
MAX_USER_REVISIONS == 2

\* ------------------------------------------------------------------ bounds
\* Number of distinct texts the completion service may return as a draft.
NumDrafts == 2
\* Longest line the user types at the feedback prompt (in characters).
MaxFeedbackLen == 1

\* ------------------------------------------------------------- text helpers
\* A text is a sequence of characters. A character is a one-character string;
\* a character with no string literal of its own (a control character, the
\* backquote, a character outside ASCII) is written as its code point,
\* "U+000B".
\* The characters str.strip() removes: those for which str.isspace() is true.
Whitespace ==
  { " ", "\t", "\n", "\r", "\f", "U+000B", "U+001C", "U+001D", "U+001E",
    "U+001F", "U+0085", "U+00A0", "U+1680", "U+2000", "U+2001", "U+2002",
    "U+2003", "U+2004", "U+2005", "U+2006", "U+2007", "U+2008", "U+2009",
    "U+200A", "U+2028", "U+2029", "U+202F", "U+205F", "U+3000" }

\* The characters str.lower() replaces by one other character, and that
\* character (the tables of the interpreter, Unicode 14.0): UpperCase[n]
\* becomes LowerCase[n].
UpperCase ==
  << "A", "B", "C", "D", "E", "F", "G", "H", "I", "J", "K", "L", "M", "N",
     "O", "P", "Q", "R", "S", "T", "U", "V", "W", "X", "Y", "Z", "U+00C0",
     "U+00C1", "U+00C2", "U+00C3", "U+00C4", "U+00C5", "U+00C6", "U+00C7",
     "U+00C8", "U+00C9", "U+00CA", "U+00CB", "U+00CC", "U+00CD", "U+00CE",
     "U+00CF", "U+00D0", "U+00D1", "U+00D2", "U+00D3", "U+00D4", "U+00D5",
     "U+00D6", "U+00D8", "U+00D9", "U+00DA", "U+00DB", "U+00DC", "U+00DD",
     "U+00DE", "U+0100", "U+0102", "U+0104", "U+0106", "U+0108", "U+010A",
     "U+010C", "U+010E", "U+0110", "U+0112", "U+0114", "U+0116", "U+0118",
     "U+011A", "U+011C", "U+011E", "U+0120", "U+0122", "U+0124", "U+0126",
     "U+0128", "U+012A", "U+012C", "U+012E", "U+0132", "U+0134", "U+0136",
     "U+0139", "U+013B", "U+013D", "U+013F", "U+0141", "U+0143", "U+0145",
     "U+0147", "U+014A", "U+014C", "U+014E", "U+0150", "U+0152", "U+0154",
     "U+0156", "U+0158", "U+015A", "U+015C", "U+015E", "U+0160", "U+0162",
     "U+0164", "U+0166", "U+0168", "U+016A", "U+016C", "U+016E", "U+0170",
     "U+0172", "U+0174", "U+0176", "U+0178", "U+0179", "U+017B", "U+017D",
     "U+0181", "U+0182", "U+0184", "U+0186", "U+0187", "U+0189", "U+018A",
     "U+018B", "U+018E", "U+018F", "U+0190", "U+0191", "U+0193", "U+0194",
     "U+0196", "U+0197", "U+0198", "U+019C", "U+019D", "U+019F", "U+01A0",
     "U+01A2", "U+01A4", "U+01A6", "U+01A7", "U+01A9", "U+01AC", "U+01AE",
     "U+01AF", "U+01B1", "U+01B2", "U+01B3", "U+01B5", "U+01B7", "U+01B8",
     "U+01BC", "U+01C4", "U+01C5", "U+01C7", "U+01C8", "U+01CA", "U+01CB",
     "U+01CD", "U+01CF", "U+01D1", "U+01D3", "U+01D5", "U+01D7", "U+01D9",
     "U+01DB", "U+01DE", "U+01E0", "U+01E2", "U+01E4", "U+01E6", "U+01E8",
     "U+01EA", "U+01EC", "U+01EE", "U+01F1", "U+01F2", "U+01F4", "U+01F6",
     "U+01F7", "U+01F8", "U+01FA", "U+01FC", "U+01FE", "U+0200", "U+0202",
     "U+0204", "U+0206", "U+0208", "U+020A", "U+020C", "U+020E", "U+0210",
     "U+0212", "U+0214", "U+0216", "U+0218", "U+021A", "U+021C", "U+021E",
     "U+0220", "U+0222", "U+0224", "U+0226", "U+0228", "U+022A", "U+022C",
     "U+022E", "U+0230", "U+0232", "U+023A", "U+023B", "U+023D", "U+023E",
     "U+0241", "U+0243", "U+0244", "U+0245", "U+0246", "U+0248", "U+024A",
     "U+024C", "U+024E", "U+0370", "U+0372", "U+0376", "U+037F", "U+0386",
     "U+0388", "U+0389", "U+038A", "U+038C", "U+038E", "U+038F", "U+0391",
     "U+0392", "U+0393", "U+0394", "U+0395", "U+0396", "U+0397", "U+0398",
     "U+0399", "U+039A", "U+039B", "U+039C", "U+039D", "U+039E", "U+039F",
     "U+03A0", "U+03A1", "U+03A3", "U+03A4", "U+03A5", "U+03A6", "U+03A7",
     "U+03A8", "U+03A9", "U+03AA", "U+03AB", "U+03CF", "U+03D8", "U+03DA",
     "U+03DC", "U+03DE", "U+03E0", "U+03E2", "U+03E4", "U+03E6", "U+03E8",
     "U+03EA", "U+03EC", "U+03EE", "U+03F4", "U+03F7", "U+03F9", "U+03FA",
     "U+03FD", "U+03FE", "U+03FF", "U+0400", "U+0401", "U+0402", "U+0403",
     "U+0404", "U+0405", "U+0406", "U+0407", "U+0408", "U+0409", "U+040A",
     "U+040B", "U+040C", "U+040D", "U+040E", "U+040F", "U+0410", "U+0411",
     "U+0412", "U+0413", "U+0414", "U+0415", "U+0416", "U+0417", "U+0418",
     "U+0419", "U+041A", "U+041B", "U+041C", "U+041D", "U+041E", "U+041F",
     "U+0420", "U+0421", "U+0422", "U+0423", "U+0424", "U+0425", "U+0426",
     "U+0427", "U+0428", "U+0429", "U+042A", "U+042B", "U+042C", "U+042D",
     "U+042E", "U+042F", "U+0460", "U+0462", "U+0464", "U+0466", "U+0468",
     "U+046A", "U+046C", "U+046E", "U+0470", "U+0472", "U+0474", "U+0476",
     "U+0478", "U+047A", "U+047C", "U+047E", "U+0480", "U+048A", "U+048C",
     "U+048E", "U+0490", "U+0492", "U+0494", "U+0496", "U+0498", "U+049A",
     "U+049C", "U+049E", "U+04A0", "U+04A2", "U+04A4", "U+04A6", "U+04A8",
     "U+04AA", "U+04AC", "U+04AE", "U+04B0", "U+04B2", "U+04B4", "U+04B6",
     "U+04B8", "U+04BA", "U+04BC", "U+04BE", "U+04C0", "U+04C1", "U+04C3",
     "U+04C5", "U+04C7", "U+04C9", "U+04CB", "U+04CD", "U+04D0", "U+04D2",
     "U+04D4", "U+04D6", "U+04D8", "U+04DA", "U+04DC", "U+04DE", "U+04E0",
     "U+04E2", "U+04E4", "U+04E6", "U+04E8", "U+04EA", "U+04EC", "U+04EE",
     "U+04F0", "U+04F2", "U+04F4", "U+04F6", "U+04F8", "U+04FA", "U+04FC",
     "U+04FE", "U+0500", "U+0502", "U+0504", "U+0506", "U+0508", "U+050A",
     "U+050C", "U+050E", "U+0510", "U+0512", "U+0514", "U+0516", "U+0518",
     "U+051A", "U+051C", "U+051E", "U+0520", "U+0522", "U+0524", "U+0526",
     "U+0528", "U+052A", "U+052C", "U+052E", "U+0531", "U+0532", "U+0533",
     "U+0534", "U+0535", "U+0536", "U+0537", "U+0538", "U+0539", "U+053A",
     "U+053B", "U+053C", "U+053D", "U+053E", "U+053F", "U+0540", "U+0541",
     "U+0542", "U+0543", "U+0544", "U+0545", "U+0546", "U+0547", "U+0548",
     "U+0549", "U+054A", "U+054B", "U+054C", "U+054D", "U+054E", "U+054F",
     "U+0550", "U+0551", "U+0552", "U+0553", "U+0554", "U+0555", "U+0556",
     "U+10A0", "U+10A1", "U+10A2", "U+10A3", "U+10A4", "U+10A5", "U+10A6",
     "U+10A7", "U+10A8", "U+10A9", "U+10AA", "U+10AB", "U+10AC", "U+10AD",
     "U+10AE", "U+10AF", "U+10B0", "U+10B1", "U+10B2", "U+10B3", "U+10B4",
     "U+10B5", "U+10B6", "U+10B7", "U+10B8", "U+10B9", "U+10BA", "U+10BB",
     "U+10BC", "U+10BD", "U+10BE", "U+10BF", "U+10C0", "U+10C1", "U+10C2",
     "U+10C3", "U+10C4", "U+10C5", "U+10C7", "U+10CD", "U+13A0", "U+13A1",
     "U+13A2", "U+13A3", "U+13A4", "U+13A5", "U+13A6", "U+13A7", "U+13A8",
     "U+13A9", "U+13AA", "U+13AB", "U+13AC", "U+13AD", "U+13AE", "U+13AF",
     "U+13B0", "U+13B1", "U+13B2", "U+13B3", "U+13B4", "U+13B5", "U+13B6",
     "U+13B7", "U+13B8", "U+13B9", "U+13BA", "U+13BB", "U+13BC", "U+13BD",
     "U+13BE", "U+13BF", "U+13C0", "U+13C1", "U+13C2", "U+13C3", "U+13C4",
     "U+13C5", "U+13C6", "U+13C7", "U+13C8", "U+13C9", "U+13CA", "U+13CB",
     "U+13CC", "U+13CD", "U+13CE", "U+13CF", "U+13D0", "U+13D1", "U+13D2",
     "U+13D3", "U+13D4", "U+13D5", "U+13D6", "U+13D7", "U+13D8", "U+13D9",
     "U+13DA", "U+13DB", "U+13DC", "U+13DD", "U+13DE", "U+13DF", "U+13E0",
     "U+13E1", "U+13E2", "U+13E3", "U+13E4", "U+13E5", "U+13E6", "U+13E7",
     "U+13E8", "U+13E9", "U+13EA", "U+13EB", "U+13EC", "U+13ED", "U+13EE",
     "U+13EF", "U+13F0", "U+13F1", "U+13F2", "U+13F3", "U+13F4", "U+13F5",
     "U+1C90", "U+1C91", "U+1C92", "U+1C93", "U+1C94", "U+1C95", "U+1C96",
     "U+1C97", "U+1C98", "U+1C99", "U+1C9A", "U+1C9B", "U+1C9C", "U+1C9D",
     "U+1C9E", "U+1C9F", "U+1CA0", "U+1CA1", "U+1CA2", "U+1CA3", "U+1CA4",
     "U+1CA5", "U+1CA6", "U+1CA7", "U+1CA8", "U+1CA9", "U+1CAA", "U+1CAB",
     "U+1CAC", "U+1CAD", "U+1CAE", "U+1CAF", "U+1CB0", "U+1CB1", "U+1CB2",
     "U+1CB3", "U+1CB4", "U+1CB5", "U+1CB6", "U+1CB7", "U+1CB8", "U+1CB9",
     "U+1CBA", "U+1CBD", "U+1CBE", "U+1CBF", "U+1E00", "U+1E02", "U+1E04",
     "U+1E06", "U+1E08", "U+1E0A", "U+1E0C", "U+1E0E", "U+1E10", "U+1E12",
     "U+1E14", "U+1E16", "U+1E18", "U+1E1A", "U+1E1C", "U+1E1E", "U+1E20",
     "U+1E22", "U+1E24", "U+1E26", "U+1E28", "U+1E2A", "U+1E2C", "U+1E2E",
     "U+1E30", "U+1E32", "U+1E34", "U+1E36", "U+1E38", "U+1E3A", "U+1E3C",
     "U+1E3E", "U+1E40", "U+1E42", "U+1E44", "U+1E46", "U+1E48", "U+1E4A",
     "U+1E4C", "U+1E4E", "U+1E50", "U+1E52", "U+1E54", "U+1E56", "U+1E58",
     "U+1E5A", "U+1E5C", "U+1E5E", "U+1E60", "U+1E62", "U+1E64", "U+1E66",
     "U+1E68", "U+1E6A", "U+1E6C", "U+1E6E", "U+1E70", "U+1E72", "U+1E74",
     "U+1E76", "U+1E78", "U+1E7A", "U+1E7C", "U+1E7E", "U+1E80", "U+1E82",
     "U+1E84", "U+1E86", "U+1E88", "U+1E8A", "U+1E8C", "U+1E8E", "U+1E90",
     "U+1E92", "U+1E94", "U+1E9E", "U+1EA0", "U+1EA2", "U+1EA4", "U+1EA6",
     "U+1EA8", "U+1EAA", "U+1EAC", "U+1EAE", "U+1EB0", "U+1EB2", "U+1EB4",
     "U+1EB6", "U+1EB8", "U+1EBA", "U+1EBC", "U+1EBE", "U+1EC0", "U+1EC2",
     "U+1EC4", "U+1EC6", "U+1EC8", "U+1ECA", "U+1ECC", "U+1ECE", "U+1ED0",
     "U+1ED2", "U+1ED4", "U+1ED6", "U+1ED8", "U+1EDA", "U+1EDC", "U+1EDE",
     "U+1EE0", "U+1EE2", "U+1EE4", "U+1EE6", "U+1EE8", "U+1EEA", "U+1EEC",
     "U+1EEE", "U+1EF0", "U+1EF2", "U+1EF4", "U+1EF6", "U+1EF8", "U+1EFA",
     "U+1EFC", "U+1EFE", "U+1F08", "U+1F09", "U+1F0A", "U+1F0B", "U+1F0C",
     "U+1F0D", "U+1F0E", "U+1F0F", "U+1F18", "U+1F19", "U+1F1A", "U+1F1B",
     "U+1F1C", "U+1F1D", "U+1F28", "U+1F29", "U+1F2A", "U+1F2B", "U+1F2C",
     "U+1F2D", "U+1F2E", "U+1F2F", "U+1F38", "U+1F39", "U+1F3A", "U+1F3B",
     "U+1F3C", "U+1F3D", "U+1F3E", "U+1F3F", "U+1F48", "U+1F49", "U+1F4A",
     "U+1F4B", "U+1F4C", "U+1F4D", "U+1F59", "U+1F5B", "U+1F5D", "U+1F5F",
     "U+1F68", "U+1F69", "U+1F6A", "U+1F6B", "U+1F6C", "U+1F6D", "U+1F6E",
     "U+1F6F", "U+1F88", "U+1F89", "U+1F8A", "U+1F8B", "U+1F8C", "U+1F8D",
     "U+1F8E", "U+1F8F", "U+1F98", "U+1F99", "U+1F9A", "U+1F9B", "U+1F9C",
     "U+1F9D", "U+1F9E", "U+1F9F", "U+1FA8", "U+1FA9", "U+1FAA", "U+1FAB",
     "U+1FAC", "U+1FAD", "U+1FAE", "U+1FAF", "U+1FB8", "U+1FB9", "U+1FBA",
     "U+1FBB", "U+1FBC", "U+1FC8", "U+1FC9", "U+1FCA", "U+1FCB", "U+1FCC",
     "U+1FD8", "U+1FD9", "U+1FDA", "U+1FDB", "U+1FE8", "U+1FE9", "U+1FEA",
     "U+1FEB", "U+1FEC", "U+1FF8", "U+1FF9", "U+1FFA", "U+1FFB", "U+1FFC",
     "U+2126", "U+212A", "U+212B", "U+2132", "U+2160", "U+2161", "U+2162",
     "U+2163", "U+2164", "U+2165", "U+2166", "U+2167", "U+2168", "U+2169",
     "U+216A", "U+216B", "U+216C", "U+216D", "U+216E", "U+216F", "U+2183",
     "U+24B6", "U+24B7", "U+24B8", "U+24B9", "U+24BA", "U+24BB", "U+24BC",
     "U+24BD", "U+24BE", "U+24BF", "U+24C0", "U+24C1", "U+24C2", "U+24C3",
     "U+24C4", "U+24C5", "U+24C6", "U+24C7", "U+24C8", "U+24C9", "U+24CA",
     "U+24CB", "U+24CC", "U+24CD", "U+24CE", "U+24CF", "U+2C00", "U+2C01",
     "U+2C02", "U+2C03", "U+2C04", "U+2C05", "U+2C06", "U+2C07", "U+2C08",
     "U+2C09", "U+2C0A", "U+2C0B", "U+2C0C", "U+2C0D", "U+2C0E", "U+2C0F",
     "U+2C10", "U+2C11", "U+2C12", "U+2C13", "U+2C14", "U+2C15", "U+2C16",
     "U+2C17", "U+2C18", "U+2C19", "U+2C1A", "U+2C1B", "U+2C1C", "U+2C1D",
     "U+2C1E", "U+2C1F", "U+2C20", "U+2C21", "U+2C22", "U+2C23", "U+2C24",
     "U+2C25", "U+2C26", "U+2C27", "U+2C28", "U+2C29", "U+2C2A", "U+2C2B",
     "U+2C2C", "U+2C2D", "U+2C2E", "U+2C2F", "U+2C60", "U+2C62", "U+2C63",
     "U+2C64", "U+2C67", "U+2C69", "U+2C6B", "U+2C6D", "U+2C6E", "U+2C6F",
     "U+2C70", "U+2C72", "U+2C75", "U+2C7E", "U+2C7F", "U+2C80", "U+2C82",
     "U+2C84", "U+2C86", "U+2C88", "U+2C8A", "U+2C8C", "U+2C8E", "U+2C90",
     "U+2C92", "U+2C94", "U+2C96", "U+2C98", "U+2C9A", "U+2C9C", "U+2C9E",
     "U+2CA0", "U+2CA2", "U+2CA4", "U+2CA6", "U+2CA8", "U+2CAA", "U+2CAC",
     "U+2CAE", "U+2CB0", "U+2CB2", "U+2CB4", "U+2CB6", "U+2CB8", "U+2CBA",
     "U+2CBC", "U+2CBE", "U+2CC0", "U+2CC2", "U+2CC4", "U+2CC6", "U+2CC8",
     "U+2CCA", "U+2CCC", "U+2CCE", "U+2CD0", "U+2CD2", "U+2CD4", "U+2CD6",
     "U+2CD8", "U+2CDA", "U+2CDC", "U+2CDE", "U+2CE0", "U+2CE2", "U+2CEB",
     "U+2CED", "U+2CF2", "U+A640", "U+A642", "U+A644", "U+A646", "U+A648",
     "U+A64A", "U+A64C", "U+A64E", "U+A650", "U+A652", "U+A654", "U+A656",
     "U+A658", "U+A65A", "U+A65C", "U+A65E", "U+A660", "U+A662", "U+A664",
     "U+A666", "U+A668", "U+A66A", "U+A66C", "U+A680", "U+A682", "U+A684",
     "U+A686", "U+A688", "U+A68A", "U+A68C", "U+A68E", "U+A690", "U+A692",
     "U+A694", "U+A696", "U+A698", "U+A69A", "U+A722", "U+A724", "U+A726",
     "U+A728", "U+A72A", "U+A72C", "U+A72E", "U+A732", "U+A734", "U+A736",
     "U+A738", "U+A73A", "U+A73C", "U+A73E", "U+A740", "U+A742", "U+A744",
     "U+A746", "U+A748", "U+A74A", "U+A74C", "U+A74E", "U+A750", "U+A752",
     "U+A754", "U+A756", "U+A758", "U+A75A", "U+A75C", "U+A75E", "U+A760",
     "U+A762", "U+A764", "U+A766", "U+A768", "U+A76A", "U+A76C", "U+A76E",
     "U+A779", "U+A77B", "U+A77D", "U+A77E", "U+A780", "U+A782", "U+A784",
     "U+A786", "U+A78B", "U+A78D", "U+A790", "U+A792", "U+A796", "U+A798",
     "U+A79A", "U+A79C", "U+A79E", "U+A7A0", "U+A7A2", "U+A7A4", "U+A7A6",
     "U+A7A8", "U+A7AA", "U+A7AB", "U+A7AC", "U+A7AD", "U+A7AE", "U+A7B0",
     "U+A7B1", "U+A7B2", "U+A7B3", "U+A7B4", "U+A7B6", "U+A7B8", "U+A7BA",
     "U+A7BC", "U+A7BE", "U+A7C0", "U+A7C2", "U+A7C4", "U+A7C5", "U+A7C6",
     "U+A7C7", "U+A7C9", "U+A7D0", "U+A7D6", "U+A7D8", "U+A7F5", "U+FF21",
     "U+FF22", "U+FF23", "U+FF24", "U+FF25", "U+FF26", "U+FF27", "U+FF28",
     "U+FF29", "U+FF2A", "U+FF2B", "U+FF2C", "U+FF2D", "U+FF2E", "U+FF2F",
     "U+FF30", "U+FF31", "U+FF32", "U+FF33", "U+FF34", "U+FF35", "U+FF36",
     "U+FF37", "U+FF38", "U+FF39", "U+FF3A", "U+10400", "U+10401", "U+10402",
     "U+10403", "U+10404", "U+10405", "U+10406", "U+10407", "U+10408",
     "U+10409", "U+1040A", "U+1040B", "U+1040C", "U+1040D", "U+1040E",
     "U+1040F", "U+10410", "U+10411", "U+10412", "U+10413", "U+10414",
     "U+10415", "U+10416", "U+10417", "U+10418", "U+10419", "U+1041A",
     "U+1041B", "U+1041C", "U+1041D", "U+1041E", "U+1041F", "U+10420",
     "U+10421", "U+10422", "U+10423", "U+10424", "U+10425", "U+10426",
     "U+10427", "U+104B0", "U+104B1", "U+104B2", "U+104B3", "U+104B4",
     "U+104B5", "U+104B6", "U+104B7", "U+104B8", "U+104B9", "U+104BA",
     "U+104BB", "U+104BC", "U+104BD", "U+104BE", "U+104BF", "U+104C0",
     "U+104C1", "U+104C2", "U+104C3", "U+104C4", "U+104C5", "U+104C6",
     "U+104C7", "U+104C8", "U+104C9", "U+104CA", "U+104CB", "U+104CC",
     "U+104CD", "U+104CE", "U+104CF", "U+104D0", "U+104D1", "U+104D2",
     "U+104D3", "U+10570", "U+10571", "U+10572", "U+10573", "U+10574",
     "U+10575", "U+10576", "U+10577", "U+10578", "U+10579", "U+1057A",
     "U+1057C", "U+1057D", "U+1057E", "U+1057F", "U+10580", "U+10581",
     "U+10582", "U+10583", "U+10584", "U+10585", "U+10586", "U+10587",
     "U+10588", "U+10589", "U+1058A", "U+1058C", "U+1058D", "U+1058E",
     "U+1058F", "U+10590", "U+10591", "U+10592", "U+10594", "U+10595",
     "U+10C80", "U+10C81", "U+10C82", "U+10C83", "U+10C84", "U+10C85",
     "U+10C86", "U+10C87", "U+10C88", "U+10C89", "U+10C8A", "U+10C8B",
     "U+10C8C", "U+10C8D", "U+10C8E", "U+10C8F", "U+10C90", "U+10C91",
     "U+10C92", "U+10C93", "U+10C94", "U+10C95", "U+10C96", "U+10C97",
     "U+10C98", "U+10C99", "U+10C9A", "U+10C9B", "U+10C9C", "U+10C9D",
     "U+10C9E", "U+10C9F", "U+10CA0", "U+10CA1", "U+10CA2", "U+10CA3",
     "U+10CA4", "U+10CA5", "U+10CA6", "U+10CA7", "U+10CA8", "U+10CA9",
     "U+10CAA", "U+10CAB", "U+10CAC", "U+10CAD", "U+10CAE", "U+10CAF",
     "U+10CB0", "U+10CB1", "U+10CB2", "U+118A0", "U+118A1", "U+118A2",
     "U+118A3", "U+118A4", "U+118A5", "U+118A6", "U+118A7", "U+118A8",
     "U+118A9", "U+118AA", "U+118AB", "U+118AC", "U+118AD", "U+118AE",
     "U+118AF", "U+118B0", "U+118B1", "U+118B2", "U+118B3", "U+118B4",
     "U+118B5", "U+118B6", "U+118B7", "U+118B8", "U+118B9", "U+118BA",
     "U+118BB", "U+118BC", "U+118BD", "U+118BE", "U+118BF", "U+16E40",
     "U+16E41", "U+16E42", "U+16E43", "U+16E44", "U+16E45", "U+16E46",
     "U+16E47", "U+16E48", "U+16E49", "U+16E4A", "U+16E4B", "U+16E4C",
     "U+16E4D", "U+16E4E", "U+16E4F", "U+16E50", "U+16E51", "U+16E52",
     "U+16E53", "U+16E54", "U+16E55", "U+16E56", "U+16E57", "U+16E58",
     "U+16E59", "U+16E5A", "U+16E5B", "U+16E5C", "U+16E5D", "U+16E5E",
     "U+16E5F", "U+1E900", "U+1E901", "U+1E902", "U+1E903", "U+1E904",
     "U+1E905", "U+1E906", "U+1E907", "U+1E908", "U+1E909", "U+1E90A",
     "U+1E90B", "U+1E90C", "U+1E90D", "U+1E90E", "U+1E90F", "U+1E910",
     "U+1E911", "U+1E912", "U+1E913", "U+1E914", "U+1E915", "U+1E916",
     "U+1E917", "U+1E918", "U+1E919", "U+1E91A", "U+1E91B", "U+1E91C",
     "U+1E91D", "U+1E91E", "U+1E91F", "U+1E920", "U+1E921" >>
LowerCase ==
  << "a", "b", "c", "d", "e", "f", "g", "h", "i", "j", "k", "l", "m", "n",
     "o", "p", "q", "r", "s", "t", "u", "v", "w", "x", "y", "z", "U+00E0",
     "U+00E1", "U+00E2", "U+00E3", "U+00E4", "U+00E5", "U+00E6", "U+00E7",
     "U+00E8", "U+00E9", "U+00EA", "U+00EB", "U+00EC", "U+00ED", "U+00EE",
     "U+00EF", "U+00F0", "U+00F1", "U+00F2", "U+00F3", "U+00F4", "U+00F5",
     "U+00F6", "U+00F8", "U+00F9", "U+00FA", "U+00FB", "U+00FC", "U+00FD",
     "U+00FE", "U+0101", "U+0103", "U+0105", "U+0107", "U+0109", "U+010B",
     "U+010D", "U+010F", "U+0111", "U+0113", "U+0115", "U+0117", "U+0119",
     "U+011B", "U+011D", "U+011F", "U+0121", "U+0123", "U+0125", "U+0127",
     "U+0129", "U+012B", "U+012D", "U+012F", "U+0133", "U+0135", "U+0137",
     "U+013A", "U+013C", "U+013E", "U+0140", "U+0142", "U+0144", "U+0146",
     "U+0148", "U+014B", "U+014D", "U+014F", "U+0151", "U+0153", "U+0155",
     "U+0157", "U+0159", "U+015B", "U+015D", "U+015F", "U+0161", "U+0163",
     "U+0165", "U+0167", "U+0169", "U+016B", "U+016D", "U+016F", "U+0171",
     "U+0173", "U+0175", "U+0177", "U+00FF", "U+017A", "U+017C", "U+017E",
     "U+0253", "U+0183", "U+0185", "U+0254", "U+0188", "U+0256", "U+0257",
     "U+018C", "U+01DD", "U+0259", "U+025B", "U+0192", "U+0260", "U+0263",
     "U+0269", "U+0268", "U+0199", "U+026F", "U+0272", "U+0275", "U+01A1",
     "U+01A3", "U+01A5", "U+0280", "U+01A8", "U+0283", "U+01AD", "U+0288",
     "U+01B0", "U+028A", "U+028B", "U+01B4", "U+01B6", "U+0292", "U+01B9",
     "U+01BD", "U+01C6", "U+01C6", "U+01C9", "U+01C9", "U+01CC", "U+01CC",
     "U+01CE", "U+01D0", "U+01D2", "U+01D4", "U+01D6", "U+01D8", "U+01DA",
     "U+01DC", "U+01DF", "U+01E1", "U+01E3", "U+01E5", "U+01E7", "U+01E9",
     "U+01EB", "U+01ED", "U+01EF", "U+01F3", "U+01F3", "U+01F5", "U+0195",
     "U+01BF", "U+01F9", "U+01FB", "U+01FD", "U+01FF", "U+0201", "U+0203",
     "U+0205", "U+0207", "U+0209", "U+020B", "U+020D", "U+020F", "U+0211",
     "U+0213", "U+0215", "U+0217", "U+0219", "U+021B", "U+021D", "U+021F",
     "U+019E", "U+0223", "U+0225", "U+0227", "U+0229", "U+022B", "U+022D",
     "U+022F", "U+0231", "U+0233", "U+2C65", "U+023C", "U+019A", "U+2C66",
     "U+0242", "U+0180", "U+0289", "U+028C", "U+0247", "U+0249", "U+024B",
     "U+024D", "U+024F", "U+0371", "U+0373", "U+0377", "U+03F3", "U+03AC",
     "U+03AD", "U+03AE", "U+03AF", "U+03CC", "U+03CD", "U+03CE", "U+03B1",
     "U+03B2", "U+03B3", "U+03B4", "U+03B5", "U+03B6", "U+03B7", "U+03B8",
     "U+03B9", "U+03BA", "U+03BB", "U+03BC", "U+03BD", "U+03BE", "U+03BF",
     "U+03C0", "U+03C1", "U+03C3", "U+03C4", "U+03C5", "U+03C6", "U+03C7",
     "U+03C8", "U+03C9", "U+03CA", "U+03CB", "U+03D7", "U+03D9", "U+03DB",
     "U+03DD", "U+03DF", "U+03E1", "U+03E3", "U+03E5", "U+03E7", "U+03E9",
     "U+03EB", "U+03ED", "U+03EF", "U+03B8", "U+03F8", "U+03F2", "U+03FB",
     "U+037B", "U+037C", "U+037D", "U+0450", "U+0451", "U+0452", "U+0453",
     "U+0454", "U+0455", "U+0456", "U+0457", "U+0458", "U+0459", "U+045A",
     "U+045B", "U+045C", "U+045D", "U+045E", "U+045F", "U+0430", "U+0431",
     "U+0432", "U+0433", "U+0434", "U+0435", "U+0436", "U+0437", "U+0438",
     "U+0439", "U+043A", "U+043B", "U+043C", "U+043D", "U+043E", "U+043F",
     "U+0440", "U+0441", "U+0442", "U+0443", "U+0444", "U+0445", "U+0446",
     "U+0447", "U+0448", "U+0449", "U+044A", "U+044B", "U+044C", "U+044D",
     "U+044E", "U+044F", "U+0461", "U+0463", "U+0465", "U+0467", "U+0469",
     "U+046B", "U+046D", "U+046F", "U+0471", "U+0473", "U+0475", "U+0477",
     "U+0479", "U+047B", "U+047D", "U+047F", "U+0481", "U+048B", "U+048D",
     "U+048F", "U+0491", "U+0493", "U+0495", "U+0497", "U+0499", "U+049B",
     "U+049D", "U+049F", "U+04A1", "U+04A3", "U+04A5", "U+04A7", "U+04A9",
     "U+04AB", "U+04AD", "U+04AF", "U+04B1", "U+04B3", "U+04B5", "U+04B7",
     "U+04B9", "U+04BB", "U+04BD", "U+04BF", "U+04CF", "U+04C2", "U+04C4",
     "U+04C6", "U+04C8", "U+04CA", "U+04CC", "U+04CE", "U+04D1", "U+04D3",
     "U+04D5", "U+04D7", "U+04D9", "U+04DB", "U+04DD", "U+04DF", "U+04E1",
     "U+04E3", "U+04E5", "U+04E7", "U+04E9", "U+04EB", "U+04ED", "U+04EF",
     "U+04F1", "U+04F3", "U+04F5", "U+04F7", "U+04F9", "U+04FB", "U+04FD",
     "U+04FF", "U+0501", "U+0503", "U+0505", "U+0507", "U+0509", "U+050B",
     "U+050D", "U+050F", "U+0511", "U+0513", "U+0515", "U+0517", "U+0519",
     "U+051B", "U+051D", "U+051F", "U+0521", "U+0523", "U+0525", "U+0527",
     "U+0529", "U+052B", "U+052D", "U+052F", "U+0561", "U+0562", "U+0563",
     "U+0564", "U+0565", "U+0566", "U+0567", "U+0568", "U+0569", "U+056A",
     "U+056B", "U+056C", "U+056D", "U+056E", "U+056F", "U+0570", "U+0571",
     "U+0572", "U+0573", "U+0574", "U+0575", "U+0576", "U+0577", "U+0578",
     "U+0579", "U+057A", "U+057B", "U+057C", "U+057D", "U+057E", "U+057F",
     "U+0580", "U+0581", "U+0582", "U+0583", "U+0584", "U+0585", "U+0586",
     "U+2D00", "U+2D01", "U+2D02", "U+2D03", "U+2D04", "U+2D05", "U+2D06",
     "U+2D07", "U+2D08", "U+2D09", "U+2D0A", "U+2D0B", "U+2D0C", "U+2D0D",
     "U+2D0E", "U+2D0F", "U+2D10", "U+2D11", "U+2D12", "U+2D13", "U+2D14",
     "U+2D15", "U+2D16", "U+2D17", "U+2D18", "U+2D19", "U+2D1A", "U+2D1B",
     "U+2D1C", "U+2D1D", "U+2D1E", "U+2D1F", "U+2D20", "U+2D21", "U+2D22",
     "U+2D23", "U+2D24", "U+2D25", "U+2D27", "U+2D2D", "U+AB70", "U+AB71",
     "U+AB72", "U+AB73", "U+AB74", "U+AB75", "U+AB76", "U+AB77", "U+AB78",
     "U+AB79", "U+AB7A", "U+AB7B", "U+AB7C", "U+AB7D", "U+AB7E", "U+AB7F",
     "U+AB80", "U+AB81", "U+AB82", "U+AB83", "U+AB84", "U+AB85", "U+AB86",
     "U+AB87", "U+AB88", "U+AB89", "U+AB8A", "U+AB8B", "U+AB8C", "U+AB8D",
     "U+AB8E", "U+AB8F", "U+AB90", "U+AB91", "U+AB92", "U+AB93", "U+AB94",
     "U+AB95", "U+AB96", "U+AB97", "U+AB98", "U+AB99", "U+AB9A", "U+AB9B",
     "U+AB9C", "U+AB9D", "U+AB9E", "U+AB9F", "U+ABA0", "U+ABA1", "U+ABA2",
     "U+ABA3", "U+ABA4", "U+ABA5", "U+ABA6", "U+ABA7", "U+ABA8", "U+ABA9",
     "U+ABAA", "U+ABAB", "U+ABAC", "U+ABAD", "U+ABAE", "U+ABAF", "U+ABB0",
     "U+ABB1", "U+ABB2", "U+ABB3", "U+ABB4", "U+ABB5", "U+ABB6", "U+ABB7",
     "U+ABB8", "U+ABB9", "U+ABBA", "U+ABBB", "U+ABBC", "U+ABBD", "U+ABBE",
     "U+ABBF", "U+13F8", "U+13F9", "U+13FA", "U+13FB", "U+13FC", "U+13FD",
     "U+10D0", "U+10D1", "U+10D2", "U+10D3", "U+10D4", "U+10D5", "U+10D6",
     "U+10D7", "U+10D8", "U+10D9", "U+10DA", "U+10DB", "U+10DC", "U+10DD",
     "U+10DE", "U+10DF", "U+10E0", "U+10E1", "U+10E2", "U+10E3", "U+10E4",
     "U+10E5", "U+10E6", "U+10E7", "U+10E8", "U+10E9", "U+10EA", "U+10EB",
     "U+10EC", "U+10ED", "U+10EE", "U+10EF", "U+10F0", "U+10F1", "U+10F2",
     "U+10F3", "U+10F4", "U+10F5", "U+10F6", "U+10F7", "U+10F8", "U+10F9",
     "U+10FA", "U+10FD", "U+10FE", "U+10FF", "U+1E01", "U+1E03", "U+1E05",
     "U+1E07", "U+1E09", "U+1E0B", "U+1E0D", "U+1E0F", "U+1E11", "U+1E13",
     "U+1E15", "U+1E17", "U+1E19", "U+1E1B", "U+1E1D", "U+1E1F", "U+1E21",
     "U+1E23", "U+1E25", "U+1E27", "U+1E29", "U+1E2B", "U+1E2D", "U+1E2F",
     "U+1E31", "U+1E33", "U+1E35", "U+1E37", "U+1E39", "U+1E3B", "U+1E3D",
     "U+1E3F", "U+1E41", "U+1E43", "U+1E45", "U+1E47", "U+1E49", "U+1E4B",
     "U+1E4D", "U+1E4F", "U+1E51", "U+1E53", "U+1E55", "U+1E57", "U+1E59",
     "U+1E5B", "U+1E5D", "U+1E5F", "U+1E61", "U+1E63", "U+1E65", "U+1E67",
     "U+1E69", "U+1E6B", "U+1E6D", "U+1E6F", "U+1E71", "U+1E73", "U+1E75",
     "U+1E77", "U+1E79", "U+1E7B", "U+1E7D", "U+1E7F", "U+1E81", "U+1E83",
     "U+1E85", "U+1E87", "U+1E89", "U+1E8B", "U+1E8D", "U+1E8F", "U+1E91",
     "U+1E93", "U+1E95", "U+00DF", "U+1EA1", "U+1EA3", "U+1EA5", "U+1EA7",
     "U+1EA9", "U+1EAB", "U+1EAD", "U+1EAF", "U+1EB1", "U+1EB3", "U+1EB5",
     "U+1EB7", "U+1EB9", "U+1EBB", "U+1EBD", "U+1EBF", "U+1EC1", "U+1EC3",
     "U+1EC5", "U+1EC7", "U+1EC9", "U+1ECB", "U+1ECD", "U+1ECF", "U+1ED1",
     "U+1ED3", "U+1ED5", "U+1ED7", "U+1ED9", "U+1EDB", "U+1EDD", "U+1EDF",
     "U+1EE1", "U+1EE3", "U+1EE5", "U+1EE7", "U+1EE9", "U+1EEB", "U+1EED",
     "U+1EEF", "U+1EF1", "U+1EF3", "U+1EF5", "U+1EF7", "U+1EF9", "U+1EFB",
     "U+1EFD", "U+1EFF", "U+1F00", "U+1F01", "U+1F02", "U+1F03", "U+1F04",
     "U+1F05", "U+1F06", "U+1F07", "U+1F10", "U+1F11", "U+1F12", "U+1F13",
     "U+1F14", "U+1F15", "U+1F20", "U+1F21", "U+1F22", "U+1F23", "U+1F24",
     "U+1F25", "U+1F26", "U+1F27", "U+1F30", "U+1F31", "U+1F32", "U+1F33",
     "U+1F34", "U+1F35", "U+1F36", "U+1F37", "U+1F40", "U+1F41", "U+1F42",
     "U+1F43", "U+1F44", "U+1F45", "U+1F51", "U+1F53", "U+1F55", "U+1F57",
     "U+1F60", "U+1F61", "U+1F62", "U+1F63", "U+1F64", "U+1F65", "U+1F66",
     "U+1F67", "U+1F80", "U+1F81", "U+1F82", "U+1F83", "U+1F84", "U+1F85",
     "U+1F86", "U+1F87", "U+1F90", "U+1F91", "U+1F92", "U+1F93", "U+1F94",
     "U+1F95", "U+1F96", "U+1F97", "U+1FA0", "U+1FA1", "U+1FA2", "U+1FA3",
     "U+1FA4", "U+1FA5", "U+1FA6", "U+1FA7", "U+1FB0", "U+1FB1", "U+1F70",
     "U+1F71", "U+1FB3", "U+1F72", "U+1F73", "U+1F74", "U+1F75", "U+1FC3",
     "U+1FD0", "U+1FD1", "U+1F76", "U+1F77", "U+1FE0", "U+1FE1", "U+1F7A",
     "U+1F7B", "U+1FE5", "U+1F78", "U+1F79", "U+1F7C", "U+1F7D", "U+1FF3",
     "U+03C9", "k", "U+00E5", "U+214E", "U+2170", "U+2171", "U+2172",
     "U+2173", "U+2174", "U+2175", "U+2176", "U+2177", "U+2178", "U+2179",
     "U+217A", "U+217B", "U+217C", "U+217D", "U+217E", "U+217F", "U+2184",
     "U+24D0", "U+24D1", "U+24D2", "U+24D3", "U+24D4", "U+24D5", "U+24D6",
     "U+24D7", "U+24D8", "U+24D9", "U+24DA", "U+24DB", "U+24DC", "U+24DD",
     "U+24DE", "U+24DF", "U+24E0", "U+24E1", "U+24E2", "U+24E3", "U+24E4",
     "U+24E5", "U+24E6", "U+24E7", "U+24E8", "U+24E9", "U+2C30", "U+2C31",
     "U+2C32", "U+2C33", "U+2C34", "U+2C35", "U+2C36", "U+2C37", "U+2C38",
     "U+2C39", "U+2C3A", "U+2C3B", "U+2C3C", "U+2C3D", "U+2C3E", "U+2C3F",
     "U+2C40", "U+2C41", "U+2C42", "U+2C43", "U+2C44", "U+2C45", "U+2C46",
     "U+2C47", "U+2C48", "U+2C49", "U+2C4A", "U+2C4B", "U+2C4C", "U+2C4D",
     "U+2C4E", "U+2C4F", "U+2C50", "U+2C51", "U+2C52", "U+2C53", "U+2C54",
     "U+2C55", "U+2C56", "U+2C57", "U+2C58", "U+2C59", "U+2C5A", "U+2C5B",
     "U+2C5C", "U+2C5D", "U+2C5E", "U+2C5F", "U+2C61", "U+026B", "U+1D7D",
     "U+027D", "U+2C68", "U+2C6A", "U+2C6C", "U+0251", "U+0271", "U+0250",
     "U+0252", "U+2C73", "U+2C76", "U+023F", "U+0240", "U+2C81", "U+2C83",
     "U+2C85", "U+2C87", "U+2C89", "U+2C8B", "U+2C8D", "U+2C8F", "U+2C91",
     "U+2C93", "U+2C95", "U+2C97", "U+2C99", "U+2C9B", "U+2C9D", "U+2C9F",
     "U+2CA1", "U+2CA3", "U+2CA5", "U+2CA7", "U+2CA9", "U+2CAB", "U+2CAD",
     "U+2CAF", "U+2CB1", "U+2CB3", "U+2CB5", "U+2CB7", "U+2CB9", "U+2CBB",
     "U+2CBD", "U+2CBF", "U+2CC1", "U+2CC3", "U+2CC5", "U+2CC7", "U+2CC9",
     "U+2CCB", "U+2CCD", "U+2CCF", "U+2CD1", "U+2CD3", "U+2CD5", "U+2CD7",
     "U+2CD9", "U+2CDB", "U+2CDD", "U+2CDF", "U+2CE1", "U+2CE3", "U+2CEC",
     "U+2CEE", "U+2CF3", "U+A641", "U+A643", "U+A645", "U+A647", "U+A649",
     "U+A64B", "U+A64D", "U+A64F", "U+A651", "U+A653", "U+A655", "U+A657",
     "U+A659", "U+A65B", "U+A65D", "U+A65F", "U+A661", "U+A663", "U+A665",
     "U+A667", "U+A669", "U+A66B", "U+A66D", "U+A681", "U+A683", "U+A685",
     "U+A687", "U+A689", "U+A68B", "U+A68D", "U+A68F", "U+A691", "U+A693",
     "U+A695", "U+A697", "U+A699", "U+A69B", "U+A723", "U+A725", "U+A727",
     "U+A729", "U+A72B", "U+A72D", "U+A72F", "U+A733", "U+A735", "U+A737",
     "U+A739", "U+A73B", "U+A73D", "U+A73F", "U+A741", "U+A743", "U+A745",
     "U+A747", "U+A749", "U+A74B", "U+A74D", "U+A74F", "U+A751", "U+A753",
     "U+A755", "U+A757", "U+A759", "U+A75B", "U+A75D", "U+A75F", "U+A761",
     "U+A763", "U+A765", "U+A767", "U+A769", "U+A76B", "U+A76D", "U+A76F",
     "U+A77A", "U+A77C", "U+1D79", "U+A77F", "U+A781", "U+A783", "U+A785",
     "U+A787", "U+A78C", "U+0265", "U+A791", "U+A793", "U+A797", "U+A799",
     "U+A79B", "U+A79D", "U+A79F", "U+A7A1", "U+A7A3", "U+A7A5", "U+A7A7",
     "U+A7A9", "U+0266", "U+025C", "U+0261", "U+026C", "U+026A", "U+029E",
     "U+0287", "U+029D", "U+AB53", "U+A7B5", "U+A7B7", "U+A7B9", "U+A7BB",
     "U+A7BD", "U+A7BF", "U+A7C1", "U+A7C3", "U+A794", "U+0282", "U+1D8E",
     "U+A7C8", "U+A7CA", "U+A7D1", "U+A7D7", "U+A7D9", "U+A7F6", "U+FF41",
     "U+FF42", "U+FF43", "U+FF44", "U+FF45", "U+FF46", "U+FF47", "U+FF48",
     "U+FF49", "U+FF4A", "U+FF4B", "U+FF4C", "U+FF4D", "U+FF4E", "U+FF4F",
     "U+FF50", "U+FF51", "U+FF52", "U+FF53", "U+FF54", "U+FF55", "U+FF56",
     "U+FF57", "U+FF58", "U+FF59", "U+FF5A", "U+10428", "U+10429", "U+1042A",
     "U+1042B", "U+1042C", "U+1042D", "U+1042E", "U+1042F", "U+10430",
     "U+10431", "U+10432", "U+10433", "U+10434", "U+10435", "U+10436",
     "U+10437", "U+10438", "U+10439", "U+1043A", "U+1043B", "U+1043C",
     "U+1043D", "U+1043E", "U+1043F", "U+10440", "U+10441", "U+10442",
     "U+10443", "U+10444", "U+10445", "U+10446", "U+10447", "U+10448",
     "U+10449", "U+1044A", "U+1044B", "U+1044C", "U+1044D", "U+1044E",
     "U+1044F", "U+104D8", "U+104D9", "U+104DA", "U+104DB", "U+104DC",
     "U+104DD", "U+104DE", "U+104DF", "U+104E0", "U+104E1", "U+104E2",
     "U+104E3", "U+104E4", "U+104E5", "U+104E6", "U+104E7", "U+104E8",
     "U+104E9", "U+104EA", "U+104EB", "U+104EC", "U+104ED", "U+104EE",
     "U+104EF", "U+104F0", "U+104F1", "U+104F2", "U+104F3", "U+104F4",
     "U+104F5", "U+104F6", "U+104F7", "U+104F8", "U+104F9", "U+104FA",
     "U+104FB", "U+10597", "U+10598", "U+10599", "U+1059A", "U+1059B",
     "U+1059C", "U+1059D", "U+1059E", "U+1059F", "U+105A0", "U+105A1",
     "U+105A3", "U+105A4", "U+105A5", "U+105A6", "U+105A7", "U+105A8",
     "U+105A9", "U+105AA", "U+105AB", "U+105AC", "U+105AD", "U+105AE",
     "U+105AF", "U+105B0", "U+105B1", "U+105B3", "U+105B4", "U+105B5",
     "U+105B6", "U+105B7", "U+105B8", "U+105B9", "U+105BB", "U+105BC",
     "U+10CC0", "U+10CC1", "U+10CC2", "U+10CC3", "U+10CC4", "U+10CC5",
     "U+10CC6", "U+10CC7", "U+10CC8", "U+10CC9", "U+10CCA", "U+10CCB",
     "U+10CCC", "U+10CCD", "U+10CCE", "U+10CCF", "U+10CD0", "U+10CD1",
     "U+10CD2", "U+10CD3", "U+10CD4", "U+10CD5", "U+10CD6", "U+10CD7",
     "U+10CD8", "U+10CD9", "U+10CDA", "U+10CDB", "U+10CDC", "U+10CDD",
     "U+10CDE", "U+10CDF", "U+10CE0", "U+10CE1", "U+10CE2", "U+10CE3",
     "U+10CE4", "U+10CE5", "U+10CE6", "U+10CE7", "U+10CE8", "U+10CE9",
     "U+10CEA", "U+10CEB", "U+10CEC", "U+10CED", "U+10CEE", "U+10CEF",
     "U+10CF0", "U+10CF1", "U+10CF2", "U+118C0", "U+118C1", "U+118C2",
     "U+118C3", "U+118C4", "U+118C5", "U+118C6", "U+118C7", "U+118C8",
     "U+118C9", "U+118CA", "U+118CB", "U+118CC", "U+118CD", "U+118CE",
     "U+118CF", "U+118D0", "U+118D1", "U+118D2", "U+118D3", "U+118D4",
     "U+118D5", "U+118D6", "U+118D7", "U+118D8", "U+118D9", "U+118DA",
     "U+118DB", "U+118DC", "U+118DD", "U+118DE", "U+118DF", "U+16E60",
     "U+16E61", "U+16E62", "U+16E63", "U+16E64", "U+16E65", "U+16E66",
     "U+16E67", "U+16E68", "U+16E69", "U+16E6A", "U+16E6B", "U+16E6C",
     "U+16E6D", "U+16E6E", "U+16E6F", "U+16E70", "U+16E71", "U+16E72",
     "U+16E73", "U+16E74", "U+16E75", "U+16E76", "U+16E77", "U+16E78",
     "U+16E79", "U+16E7A", "U+16E7B", "U+16E7C", "U+16E7D", "U+16E7E",
     "U+16E7F", "U+1E922", "U+1E923", "U+1E924", "U+1E925", "U+1E926",
     "U+1E927", "U+1E928", "U+1E929", "U+1E92A", "U+1E92B", "U+1E92C",
     "U+1E92D", "U+1E92E", "U+1E92F", "U+1E930", "U+1E931", "U+1E932",
     "U+1E933", "U+1E934", "U+1E935", "U+1E936", "U+1E937", "U+1E938",
     "U+1E939", "U+1E93A", "U+1E93B", "U+1E93C", "U+1E93D", "U+1E93E",
     "U+1E93F", "U+1E940", "U+1E941", "U+1E942", "U+1E943" >>

UpperToLower ==
  [c \in {UpperCase[n] : n \in DOMAIN UpperCase} |->
     LowerCase[CHOOSE n \in DOMAIN UpperCase : UpperCase[n] = c]]

\* str.lower() of one character out of context: U+0130 becomes two
\* characters, a character of the table its partner, any other stays.
LowerOfChar(c) ==
  IF c = "U+0130" THEN <<"i", "U+0307">>
  ELSE IF c \in DOMAIN UpperToLower THEN <<UpperToLower[c]>>
  ELSE <<c>>

\* The classes str.lower() looks at around a capital sigma (U+03A3), for the
\* characters up to U+00FF, the whitespace characters and the characters of
\* the two tables: characters it skips, cased characters, and the rest.
\* No class is given to any other character.
CaseIgnorable ==
  { "'", ".", ":", "^", "U+0060", "U+00A8", "U+00AD", "U+00AF", "U+00B4",
    "U+00B7", "U+00B8", "U+0307" }
OtherCased ==
  { "U+00AA", "U+00B5", "U+00BA", "U+03C2" }
Cased ==
  {UpperCase[n] : n \in DOMAIN UpperCase} \cup {LowerCase[n] : n \in DOMAIN LowerCase}
    \cup {"U+0130"} \cup OtherCased
Uncased ==
  { "U+0000", "U+0001", "U+0002", "U+0003", "U+0004", "U+0005", "U+0006",
    "U+0007", "U+0008", "\t", "\n", "U+000B", "\f", "\r", "U+000E", "U+000F",
    "U+0010", "U+0011", "U+0012", "U+0013", "U+0014", "U+0015", "U+0016",
    "U+0017", "U+0018", "U+0019", "U+001A", "U+001B", "U+001C", "U+001D",
    "U+001E", "U+001F", " ", "!", "\"", "#", "$", "%", "&", "(", ")", "*",
    "+", ",", "-", "/", "0", "1", "2", "3", "4", "5", "6", "7", "8", "9",
    ";", "<", "=", ">", "?", "@", "[", "\\", "]", "_", "{", "|", "}", "~",
    "U+007F", "U+0080", "U+0081", "U+0082", "U+0083", "U+0084", "U+0085",
    "U+0086", "U+0087", "U+0088", "U+0089", "U+008A", "U+008B", "U+008C",
    "U+008D", "U+008E", "U+008F", "U+0090", "U+0091", "U+0092", "U+0093",
    "U+0094", "U+0095", "U+0096", "U+0097", "U+0098", "U+0099", "U+009A",
    "U+009B", "U+009C", "U+009D", "U+009E", "U+009F", "U+00A0", "U+00A1",
    "U+00A2", "U+00A3", "U+00A4", "U+00A5", "U+00A6", "U+00A7", "U+00A9",
    "U+00AB", "U+00AC", "U+00AE", "U+00B0", "U+00B1", "U+00B2", "U+00B3",
    "U+00B6", "U+00B9", "U+00BB", "U+00BC", "U+00BD", "U+00BE", "U+00BF",
    "U+00D7", "U+00F7", "U+1680", "U+2000", "U+2001", "U+2002", "U+2003",
    "U+2004", "U+2005", "U+2006", "U+2007", "U+2008", "U+2009", "U+200A",
    "U+2028", "U+2029", "U+202F", "U+205F", "U+3000" }

\* A cased character stands before position j + 1, case-ignorable characters
\* skipped.
RECURSIVE CasedBefore(_, _)
CasedBefore(text, j) ==
  IF j < 1 THEN FALSE
  ELSE CASE text[j] \in CaseIgnorable -> CasedBefore(text, j - 1)
         [] text[j] \in Cased -> TRUE
         [] text[j] \in Uncased -> FALSE

\* A cased character stands after position j - 1, case-ignorable characters
\* skipped.
RECURSIVE CasedAfter(_, _)
CasedAfter(text, j) ==
  IF j > Len(text) THEN FALSE
  ELSE CASE text[j] \in CaseIgnorable -> CasedAfter(text, j + 1)
         [] text[j] \in Cased -> TRUE
         [] text[j] \in Uncased -> FALSE

\* The capital sigma at position i ends a word: it becomes U+03C2, not U+03C3.
FinalSigma(text, i) == CasedBefore(text, i - 1) /\ ~CasedAfter(text, i + 1)

RECURSIVE LowerFrom(_, _)
LowerFrom(text, i) ==
  IF i > Len(text) THEN <<>>
  ELSE (IF text[i] = "U+03A3" /\ FinalSigma(text, i) THEN <<"U+03C2">>
        ELSE LowerOfChar(text[i])) \o LowerFrom(text, i + 1)

\* str.lower()
Lower(text) == LowerFrom(text, 1)

RECURSIVE LStrip(_)
LStrip(text) ==
  IF text # <<>> /\ Head(text) \in Whitespace THEN LStrip(Tail(text)) ELSE text

RECURSIVE RStrip(_)
RStrip(text) ==
  IF text # <<>> /\ text[Len(text)] \in Whitespace
  THEN RStrip(SubSeq(text, 1, Len(text) - 1))
  ELSE text

\* The text as it is: .strip() left out.
Strip_Missing(text) == text

\* str.strip()
Strip(text) == RStrip(LStrip(text))

\* --------------------------------------------------------------- JSON texts
\* A Judge response is a sequence of JSON lexemes (whitespace between lexemes
\* is insignificant to json.loads and is left out).
P(c) == [k |-> "punct", v |-> c]
S(s) == [k |-> "str", v |-> s]
N(n) == [k |-> "num", n |-> n]
F(w) == [k |-> "float", v |-> w]
L(w) == [k |-> "lit", v |-> w]
W(w) == [k |-> "word", v |-> w]

\* The float (by its repr) json.loads returns for a number lexeme that has a
\* fraction or an exponent.
FloatOfNumber ==
  [w \in {"0.0", "-0.0", "0e0", "1.5", "2e1"} |->
     CASE w = "0.0" -> "0.0" [] w = "-0.0" -> "-0.0" [] w = "0e0" -> "0.0"
       [] w = "1.5" -> "1.5" [] w = "2e1" -> "20.0"]

\* The bare words json.loads takes for floats although JSON has no such
\* values, and the repr of the float each one yields.
FloatWords == {"NaN", "Infinity", "-Infinity"}
FloatOfWord(w) ==
  CASE w = "NaN" -> "nan" [] w = "Infinity" -> "inf" [] w = "-Infinity" -> "-inf"

\* Python values produced by json.loads.
PyBool(b) == [t |-> "bool", b |-> b]
PyNone == [t |-> "none"]
PyInt(n) == [t |-> "int", n |-> n]
PyFloat(repr) == [t |-> "float", repr |-> repr]
PyStr(s) == [t |-> "str", s |-> s]
PyList(l) == [t |-> "list", l |-> l]
PyDict(d) == [t |-> "dict", d |-> d]

ParseFail == [ok |-> FALSE, val |-> PyNone, pos |-> 0]
ParseOk(v, p) == [ok |-> TRUE, val |-> v, pos |-> p]

IsTok(toks, i, tok) == i <= Len(toks) /\ toks[i] = tok

\* json.loads's recursive-descent decoder: the value starting at lexeme i.
RECURSIVE ParseValue(_, _)
RECURSIVE ParseElements(_, _, _)
RECURSIVE ParseMembers(_, _, _)

ParseValue(toks, i) ==
  IF i > Len(toks) THEN ParseFail
  ELSE LET tok == toks[i] IN
    CASE tok.k = "lit" ->
           ParseOk(CASE tok.v = "true" -> PyBool(TRUE)
                     [] tok.v = "false" -> PyBool(FALSE)
                     [] OTHER -> PyNone, i + 1)
      [] tok.k = "num" -> ParseOk(PyInt(tok.n), i + 1)
      [] tok.k = "float" -> ParseOk(PyFloat(FloatOfNumber[tok.v]), i + 1)
      [] tok.k = "str" -> ParseOk(PyStr(tok.v), i + 1)
      [] tok.k = "word" ->
           IF tok.v \in FloatWords THEN ParseOk(PyFloat(FloatOfWord(tok.v)), i + 1)
           ELSE ParseFail
      [] tok.k = "punct" ->
           CASE tok.v = "[" ->
                  IF IsTok(toks, i + 1, P("]")) THEN ParseOk(PyList(<<>>), i + 2)
                  ELSE ParseElements(toks, i + 1, <<>>)
             [] tok.v = "{" ->
                  IF IsTok(toks, i + 1, P("}")) THEN ParseOk(PyDict(<<>>), i + 2)
                  ELSE ParseMembers(toks, i + 1, <<>>)
             [] OTHER -> ParseFail

\* The elements of an array after "[" or ",": value ("," value)* "]".
ParseElements(toks, i, acc) ==
  LET r == ParseValue(toks, i) IN
    IF ~r.ok THEN ParseFail
    ELSE IF IsTok(toks, r.pos, P("]")) THEN ParseOk(PyList(Append(acc, r.val)), r.pos + 1)
    ELSE IF IsTok(toks, r.pos, P(",")) THEN ParseElements(toks, r.pos + 1, Append(acc, r.val))
    ELSE ParseFail

\* The members of an object after "{" or ",": string ":" value ("," ...)* "}".
\* A repeated key keeps its last value.
ParseMembers(toks, i, acc) ==
  IF ~(i <= Len(toks) /\ toks[i].k = "str" /\ IsTok(toks, i + 1, P(":"))) THEN ParseFail
  ELSE LET r == ParseValue(toks, i + 2) IN
    IF ~r.ok THEN ParseFail
    ELSE LET d == (toks[i].v :> r.val) @@ acc IN
      IF IsTok(toks, r.pos, P("}")) THEN ParseOk(PyDict(d), r.pos + 1)
      ELSE IF IsTok(toks, r.pos, P(",")) THEN ParseMembers(toks, r.pos + 1, d)
      ELSE ParseFail

\* json.loads(text): one value spanning the whole text, else JSONDecodeError.
json_loads(text) ==
  LET r == ParseValue(text, 1) IN
    IF r.ok /\ r.pos = Len(text) + 1 THEN r ELSE ParseFail

\* The dict returned by parse_judge's except branch.
FallbackVerdict ==
  PyDict(("require_revision" :> PyBool(TRUE))
         @@ ("required_changes" :> PyList(<<PyStr("Fix JSON parsing")>>))
         @@ ("safety_flags" :> PyList(<<>>)))

\* def parse_judge(text)
parse_judge(text) ==
  LET r == json_loads(text) IN IF r.ok THEN r.val ELSE FallbackVerdict

\* Python truth value of an object (bool(x)).
Truthy(x) ==
  CASE x.t = "bool" -> x.b
    [] x.t = "none" -> FALSE
    [] x.t = "int" -> x.n # 0
    [] x.t = "float" -> x.repr \notin {"0.0", "-0.0"}
    [] x.t = "str" -> x.s # ""
    [] x.t = "list" -> x.l # <<>>
    [] x.t = "dict" -> DOMAIN x.d # {}

\* judge.get exists only on a dict; on any other object the attribute lookup
\* raises AttributeError.
HasGet(x) == x.t = "dict"

\* dict.get answering True for a key the dict does not have.
DictGet_DefaultTrue(x, key, default) ==
  IF key \in DOMAIN x.d THEN x.d[key] ELSE PyBool(TRUE)

\* dict.get(key, default)
DictGet(x, key, default) == IF key \in DOMAIN x.d THEN x.d[key] ELSE default

\* Line 143 without its `not`.
JudgeAccepts_Inverted(judge) == Truthy(DictGet(judge, "require_revision", PyBool(FALSE)))

\* The condition of line 143: not judge.get("require_revision", False)
JudgeAccepts(judge) == ~Truthy(DictGet(judge, "require_revision", PyBool(FALSE)))

\* ------------------------------------------------------------------ inputs
\* Responses of the Judge completion: plain text, truncated JSON, JSON with
\* trailing text, JSON values that are not objects, and JSON objects with and
\* without the require_revision key.
RR == S("require_revision")

\* Not JSON, and json.loads raises JSONDecodeError.
NotJsonTexts ==
  { <<W("looks"), W("good")>>,
    <<>>,
    <<P("{"), RR, P(":"), L("true")>>,
    <<P("{"), RR, P(":"), L("false"), P("}"), W("thanks")>>,
    <<P("["), N(1), P(","), P("]")>> }

\* Not JSON either (NaN, Infinity and -Infinity are no JSON values), yet
\* json.loads returns a value for them.
LenientJsonTexts ==
  { <<W("NaN")>>,
    <<W("-Infinity")>>,
    <<P("["), W("Infinity"), P("]")>>,
    <<P("{"), RR, P(":"), W("NaN"), P("}")>> }

\* Valid JSON that is not an object.
JsonNonObjectTexts ==
  { <<S("looks good")>>,
    <<N(1)>>,
    <<L("null")>>,
    <<L("false")>>,
    <<P("["), P("]")>>,
    <<P("["), P("{"), RR, P(":"), L("false"), P("}"), P("]")>> }

\* Valid JSON objects.
JsonObjectTexts ==
  { <<P("{"), P("}")>>,
    <<P("{"), S("summary"), P(":"), S("ok"), P("}")>>,
    <<P("{"), RR, P(":"), L("false"), P("}")>>,
    <<P("{"), RR, P(":"), L("false"), P(","), S("required_changes"), P(":"),
      P("["), S("add more dialogue"), P("]"), P("}")>>,
    <<P("{"), RR, P(":"), L("true"), P("}")>>,
    <<P("{"), RR, P(":"), L("true"), P(","), S("required_changes"), P(":"),
      P("["), S("add more dialogue"), P("]"), P("}")>>,
    <<P("{"), RR, P(":"), L("true"), P(","), RR, P(":"), L("false"), P("}")>>,
    <<P("{"), RR, P(":"), L("null"), P("}")>>,
    <<P("{"), RR, P(":"), N(0), P("}")>>,
    <<P("{"), RR, P(":"), F("0.0"), P("}")>>,
    <<P("{"), RR, P(":"), F("-0.0"), P("}")>>,
    <<P("{"), RR, P(":"), F("1.5"), P("}")>>,
    <<P("{"), RR, P(":"), S("no"), P("}")>>,
    <<P("{"), RR, P(":"), P("["), P("]"), P("}")>> }

JudgeTexts ==
  NotJsonTexts \cup LenientJsonTexts \cup JsonNonObjectTexts \cup JsonObjectTexts

\* What a Judge response is, as the log of verdicts records it.
TextKind(text) ==
  CASE text \in NotJsonTexts -> "not_json"
    [] text \in LenientJsonTexts -> "lenient"
    [] text \in JsonNonObjectTexts -> "non_object"
    [] OTHER -> "object"

\* Responses of the Classifier completion (before .strip().lower()).
ClassifierTexts ==
  { <<"o", "t", "h", "e", "r">>,
    <<"\r", " ", "O", "T", "H", "E", "R", "U+00A0", "\n">>,
    <<"s", "p", "a", "c", "e", "-", "o", "p", "e", "r", "a">> }

\* The category names listed in the Classifier's system prompt (line 64).
Categories ==
  { <<"a", "n", "i", "m", "a", "l", "s">>,
    <<"a", "d", "v", "e", "n", "t", "u", "r", "e">>,
    <<"f", "r", "i", "e", "n", "d", "s", "h", "i", "p">>,
    <<"b", "e", "d", "t", "i", "m", "e", "-", "c", "a", "l", "m", "i", "n", "g">>,
    <<"f", "a", "n", "t", "a", "s", "y">>,
    <<"o", "t", "h", "e", "r">> }

\* Draft texts the Storyteller and the Reviser completions may return.
Drafts == {<<n>> : n \in 1..NumDrafts}
NoDraft == <<>>

\* Lines the user may type at the feedback prompt.
FeedbackChars == {" ", "\r", "a"}
RECURSIVE TextsUpTo(_)
TextsUpTo(n) ==
  IF n = 0 THEN {<<>>}
  ELSE LET shorter == TextsUpTo(n - 1) IN
    shorter \cup {Append(t, c) : t \in {u \in shorter : Len(u) = n - 1}, c \in FeedbackChars}
FeedbackLines == TextsUpTo(MaxFeedbackLen)

\* The -p/--prompt argument ("" stands for an absent or empty argument) and
\* the line read by input("What kind of story do you want? "): the same request
\* given either way, since nothing after line 168 depends on where it came from.
PromptArgs == {"", "a shy dragon"}
StdinRequests == {"a shy dragon"}

NoText == <<>>
Unset == [t |-> "unset"]
JudgeFeedback == <<"Apply judge feedback">>

\* ------------------------------------------------------------------- state
VARIABLES
  pc,            \* position of the thread running main()
  api_key,       \* whether OPENAI_API_KEY is set in the environment
  user_request,  \* main: user_request
  category,      \* generate_polished_story: category
  story,         \* the loops' local: story
  i_internal,    \* generate_polished_story: iterations of the for loop begun
  judge_out,     \* generate_polished_story: judge_out
  judge,         \* generate_polished_story: judge
  polished,      \* main: polished
  i_user,        \* user_feedback_loop: iterations of the for loop begun
  feedback,      \* user_feedback_loop: feedback
  final_story,   \* main: final_story
  error,         \* the exception that ended the run, if any
  calls,         \* every chat_once call made so far, in order
  verdicts,      \* the outcome of line 143 for every Judge response, in order
  presented,     \* drafts printed under "=== STORY DRAFT ===", in order
  feedbacks,     \* feedback values read (after strip), in order
  last_line,     \* the line read by the feedback prompt as it was typed; after the
                 \* next step only its stripped form is left (line 153 keeps no other)
  notices,       \* the notices printed by user_feedback_loop
  printed,       \* stories printed under "=== FINAL STORY ===", in order
  key_checks,    \* how many times ensure_api_key has run
  twin_out,      \* the Judge response of a second run that differs from this one
                 \* only in the parts of its Verdicts other than require_revision
  twin_judge,    \* that run's judge
  twin_agrees    \* that run has made the same decisions and sent the same
                 \* Reviser inputs as this one so far

vars == <<pc, api_key, user_request, category, story, i_internal, judge_out, judge,
          polished, i_user, feedback, final_story, error, calls, verdicts, presented,
          feedbacks, last_line, notices, printed, key_checks, twin_out, twin_judge,
          twin_agrees>>

\* One chat_once call: the function that made it, the agent whose prompt it
\* carries, the draft and the feedback put in the prompt, whether it returned,
\* and the draft it returned (NoDraft for the Classifier and the Judge).
\* category is the category put in the prompt (the Storyteller's only).
Call(caller, agent, in_story, fb, ok, out) ==
  [caller |-> caller, agent |-> agent, story |-> in_story, feedback |-> fb,
   ok |-> ok, out |-> out, category |-> NoText]

\* The value of judge.get("require_revision", False) as the log records it.
RRClass(verdict) ==
  IF ~HasGet(verdict) THEN "n/a"
  ELSE IF "require_revision" \notin DOMAIN verdict.d THEN "absent"
  ELSE IF verdict.d["require_revision"] = PyBool(FALSE) THEN "False"
  ELSE IF verdict.d["require_revision"] = PyBool(TRUE) THEN "True"
  ELSE "other"

VerdictEntry(decision, text, verdict) ==
  [decision |-> decision, kind |-> TextKind(text), rr |-> RRClass(verdict)]

Init ==
  /\ pc = "import"
  /\ api_key \in BOOLEAN
  /\ user_request = ""
  /\ category = NoText
  /\ story = NoDraft
  /\ i_internal = 0
  /\ judge_out = NoText
  /\ judge = Unset
  /\ polished = NoDraft
  /\ i_user = 0
  /\ feedback = NoText
  /\ final_story = NoDraft
  /\ error = "none"
  /\ calls = <<>>
  /\ verdicts = <<>>
  /\ presented = <<>>
  /\ feedbacks = <<>>
  /\ last_line = NoText
  /\ notices = <<>>
  /\ printed = <<>>
  /\ key_checks = 0
  /\ twin_out = NoText
  /\ twin_judge = Unset
  /\ twin_agrees = TRUE

\* Lines 143-145 with the Reviser left out after the last allowed Judge call:
\* the draft is returned as it is.
Decision_CapChecked(verdict) ==
  IF ~HasGet(verdict) THEN "AttributeError"
  ELSE IF JudgeAccepts(verdict) \/ i_internal = MAX_INTERNAL_REVISIONS THEN "accept"
  ELSE "revise"

\* Lines 143-145 for one verdict: judge.get raises, the draft is returned, or
\* the Reviser is called.
Decision(verdict) ==
  IF ~HasGet(verdict) THEN "AttributeError"
  ELSE IF JudgeAccepts(verdict) THEN "accept"
  ELSE "revise"

\* Line 145 passing on the Verdict's required_changes, when it has any, after
\* the literal.
InternalFeedback_FromVerdict(verdict) ==
  IF HasGet(verdict) /\ "required_changes" \in DOMAIN verdict.d
  THEN JudgeFeedback \o <<"required_changes">>
  ELSE JudgeFeedback

\* The feedback argument of line 145: the literal "Apply judge feedback".
InternalFeedback(verdict) == JudgeFeedback

\* reviser_messages(user_request, story, feedback) as line 145 calls it: the
\* three values its prompt is made of.
ReviserInput(verdict) ==
  [request |-> user_request, story |-> story, feedback |-> InternalFeedback(verdict)]

\* Members a Judge may add to its JSON object besides require_revision.
OtherMembers ==
  { <<S("required_changes"), P(":"), P("["), S("use shorter words"), P("]")>>,
    <<S("safety_flags"), P(":"), P("["), S("scary"), P("]")>>,
    <<S("summary"), P(":"), S("lovely")>> }

\* A JSON object text with one more member before its closing brace.
WithMember(text, member) ==
  IF Len(text) = 2 THEN <<P("{")>> \o member \o <<P("}")>>
  ELSE SubSeq(text, 1, Len(text) - 1) \o <<P(",")>> \o member \o <<P("}")>>

\* The responses a second run may get where this run gets `text`: the same
\* JSON object with another required_changes, safety_flags or summary member,
\* so that the two Verdicts agree on require_revision and differ elsewhere
\* (a response that is no JSON object has no such twin but itself).
Twins(text) ==
  IF text \in JsonObjectTexts
  THEN {text} \cup {WithMember(text, member) : member \in OtherMembers}
  ELSE {text}

\* range(MAX_INTERNAL_REVISIONS + 1), line 140
InternalRange == 0..MAX_INTERNAL_REVISIONS
\* range(MAX_USER_REVISIONS + 2): one iteration too many.
UserRange_OneMore == 0..(MAX_USER_REVISIONS + 1)

\* range(MAX_USER_REVISIONS + 1), line 150
UserRange == 0..MAX_USER_REVISIONS

\* ----------------------------------------------------------------- actions
\* Line 44, run when the module is loaded: client = OpenAI(). api_key = FALSE
\* stands for a variable that is unset or empty: the constructor raises for
\* the unset one and accepts the empty one, which ensure_api_key then rejects.
ModuleImport(unset) ==
  /\ pc = "import"
  /\ IF ~api_key /\ unset
     THEN pc' = "crashed" /\ error' = "OpenAIError"
     ELSE pc' = "main" /\ error' = error
  /\ UNCHANGED <<key_checks, twin_out, twin_judge, twin_agrees, api_key, user_request,
                 category, story, i_internal, judge_out, judge, polished, i_user,
                 feedback, final_story, calls, verdicts, presented, feedbacks,
                 last_line, notices, printed>>

\* ensure_api_key with its test left out: it never raises.
ensure_api_key_NoCheck ==
  /\ pc = "main"
  /\ pc' = "request"
  /\ key_checks' = key_checks + 1
  /\ UNCHANGED <<error, twin_out, twin_judge, twin_agrees, api_key, user_request,
                 category, story, i_internal, judge_out, judge, polished, i_user,
                 feedback, final_story, calls, verdicts, presented, feedbacks,
                 last_line, notices, printed>>

\* main, line 167: ensure_api_key()
ensure_api_key ==
  /\ pc = "main"
  /\ IF api_key
     THEN pc' = "request" /\ error' = error
     ELSE pc' = "crashed" /\ error' = "EnvironmentError"
  /\ key_checks' = key_checks + 1
  /\ UNCHANGED <<twin_out, twin_judge, twin_agrees, api_key, user_request, category, story, i_internal, judge_out, judge,
                 polished, i_user, feedback, final_story, calls, verdicts, presented,
                 feedbacks, last_line, notices, printed>>

\* main, line 168: user_request = args.prompt or input(...)
ReadRequest(prompt, line) ==
  /\ pc = "request"
  /\ user_request' = IF prompt # "" THEN prompt ELSE line
  /\ pc' = "classify"
  /\ UNCHANGED <<key_checks, twin_out, twin_judge, twin_agrees, api_key, category, story, i_internal, judge_out, judge, polished,
                 i_user, feedback, final_story, error, calls, verdicts, presented,
                 feedbacks, last_line, notices, printed>>

\* classify_request rejecting a name that is not one of the listed categories.
classify_request_Validated(text) ==
  /\ pc = "classify"
  /\ category' = Lower(Strip(text))
  /\ calls' = Append(calls, Call("classify_request", "Classifier", NoDraft, NoText, TRUE, NoDraft))
  /\ IF Lower(Strip(text)) \in Categories
     THEN pc' = "storyteller" /\ error' = error
     ELSE pc' = "crashed" /\ error' = "ValueError"
  /\ UNCHANGED <<key_checks, twin_out, twin_judge, twin_agrees, api_key, user_request,
                 story, i_internal, judge_out, judge, polished, i_user, feedback,
                 final_story, verdicts, presented, feedbacks, last_line, notices, printed>>

\* generate_polished_story, line 137: category = classify_request(user_request)
classify_request(text) ==
  /\ pc = "classify"
  /\ category' = Lower(Strip(text))
  /\ calls' = Append(calls, Call("classify_request", "Classifier", NoDraft, NoText, TRUE, NoDraft))
  /\ pc' = "storyteller"
  /\ UNCHANGED <<key_checks, twin_out, twin_judge, twin_agrees, api_key, user_request, story, i_internal, judge_out, judge, polished,
                 i_user, feedback, final_story, error, verdicts, presented, feedbacks,
                 last_line, notices, printed>>

\* generate_polished_story, line 138: story = chat_once(storyteller_messages(...));
\* the for loop of line 140 is entered (range(MAX_INTERNAL_REVISIONS + 1) is
\* never empty).
Storyteller(draft) ==
  /\ pc = "storyteller"
  /\ story' = draft
  /\ calls' = Append(calls, [Call("generate_polished_story", "Storyteller", NoDraft, NoText,
                                 TRUE, draft) EXCEPT !.category = category])
  /\ i_internal' = 0
  /\ pc' = "judge"
  /\ UNCHANGED <<key_checks, twin_out, twin_judge, twin_agrees, api_key, user_request, category, judge_out, judge, polished, i_user,
                 feedback, final_story, error, verdicts, presented, feedbacks,
                 last_line, notices, printed>>

\* generate_polished_story, line 141: judge_out = chat_once(judge_messages(...))
JudgeCall(text, twin) ==
  /\ pc = "judge"
  /\ judge_out' = text
  /\ twin_out' = twin
  /\ calls' = Append(calls, Call("generate_polished_story", "Judge", story, NoText, TRUE, NoDraft))
  /\ pc' = "parse_judge"
  /\ UNCHANGED <<key_checks, twin_judge, twin_agrees, api_key, user_request, category, story, i_internal, judge, polished,
                 i_user, feedback, final_story, error, verdicts, presented, feedbacks,
                 last_line, notices, printed>>

\* generate_polished_story returning the Storyteller's draft instead of the
\* current one.
ReturnPolished_Initial(draft) ==
  /\ polished' = SelectSeq(calls, LAMBDA c : c.agent = "Storyteller")[1].out
  /\ judge_out' = NoText
  /\ judge' = Unset
  /\ twin_out' = NoText
  /\ twin_judge' = Unset
  /\ i_user' = 0
  /\ pc' = "present"

\* What follows `return story` in generate_polished_story: its locals are gone,
\* main binds polished (line 170) and user_feedback_loop starts its for loop.
ReturnPolished(draft) ==
  /\ polished' = draft
  /\ judge_out' = NoText
  /\ judge' = Unset
  /\ twin_out' = NoText
  /\ twin_judge' = Unset
  /\ i_user' = 0
  /\ pc' = "present"

\* generate_polished_story, lines 142-144: judge = parse_judge(judge_out);
\* if not judge.get("require_revision", False): return story
JudgeDecide ==
  /\ pc = "parse_judge"
  /\ LET verdict == parse_judge(judge_out)
         twin == parse_judge(twin_out)
     IN /\ twin_agrees' = (twin_agrees /\ Decision(twin) = Decision(verdict))
        /\ verdicts' = Append(verdicts, VerdictEntry(Decision(verdict), judge_out, verdict))
        /\ CASE Decision(verdict) = "AttributeError" ->
                  /\ judge' = verdict
                  /\ twin_judge' = twin
                  /\ error' = "AttributeError"
                  /\ pc' = "crashed"
                  /\ UNCHANGED <<judge_out, twin_out, polished, i_user>>
             [] Decision(verdict) = "accept" ->
                  /\ ReturnPolished(story)
                  /\ error' = error
             [] Decision(verdict) = "revise" ->
                  /\ judge' = verdict
                  /\ twin_judge' = twin
                  /\ pc' = "revise_internal"
                  /\ UNCHANGED <<judge_out, twin_out, polished, i_user, error>>
  /\ UNCHANGED <<key_checks, api_key, user_request, category, story, i_internal, feedback,
                 final_story, calls, presented, feedbacks, last_line, notices, printed>>

\* generate_polished_story, line 145: story = chat_once(reviser_messages(user_request,
\* story, "Apply judge feedback")); then the next iteration of the for loop, or
\* line 146 (return story) when the range is used up.
InternalRevise(draft) ==
  /\ pc = "revise_internal"
  /\ story' = draft
  /\ calls' = Append(calls, Call("generate_polished_story", "Reviser", story,
                                InternalFeedback(judge), TRUE, draft))
  /\ twin_agrees' = (twin_agrees /\ ReviserInput(twin_judge) = ReviserInput(judge))
  /\ i_internal' = i_internal + 1
  /\ IF i_internal + 1 \in InternalRange
     THEN pc' = "judge" /\ UNCHANGED <<judge_out, judge, twin_out, twin_judge, polished, i_user>>
     ELSE ReturnPolished(draft)
  /\ UNCHANGED <<key_checks, api_key, user_request, category, feedback, final_story, error,
                 verdicts, presented, feedbacks, last_line, notices, printed>>

\* user_feedback_loop, lines 151-152: print the draft.
Present ==
  /\ pc = "present"
  /\ story' = IF i_user = 0 THEN polished ELSE story
  /\ presented' = Append(presented, IF i_user = 0 THEN polished ELSE story)
  /\ pc' = "feedback"
  /\ UNCHANGED <<key_checks, twin_out, twin_judge, twin_agrees, api_key, user_request, category, i_internal, judge_out, judge, polished,
                 i_user, feedback, final_story, error, calls, verdicts, feedbacks,
                 last_line, notices, printed>>

\* What follows `return story` in user_feedback_loop: main binds final_story
\* (line 171).
ReturnFinal(draft) ==
  /\ final_story' = draft
  /\ pc' = "print_final"

\* user_feedback_loop, lines 153-156: feedback = input(...).strip();
\* if not feedback: return story
ReadFeedback(line) ==
  /\ pc = "feedback"
  /\ last_line' = line
  /\ feedback' = Strip(line)
  /\ feedbacks' = Append(feedbacks, Strip(line))
  /\ IF Strip(line) = <<>>
     THEN /\ notices' = Append(notices, "Final story accepted.")
          /\ ReturnFinal(story)
     ELSE /\ pc' = "revise_user"
          /\ UNCHANGED <<notices, final_story>>
  /\ UNCHANGED <<key_checks, twin_out, twin_judge, twin_agrees, api_key, user_request, category, story, i_internal, judge_out, judge,
                 polished, i_user, error, calls, verdicts, presented, printed>>

\* user_feedback_loop, line 157: story = chat_once(reviser_messages(user_request,
\* story, feedback)); then the next iteration, or lines 158-159 when the range
\* is used up.
UserRevise(draft) ==
  /\ pc = "revise_user"
  /\ story' = draft
  /\ calls' = Append(calls, Call("user_feedback_loop", "Reviser", story, feedback, TRUE, draft))
  /\ last_line' = feedback
  /\ i_user' = i_user + 1
  /\ IF i_user + 1 \in UserRange
     THEN pc' = "present" /\ UNCHANGED <<notices, final_story>>
     ELSE /\ notices' = Append(notices, "Reached max user revisions. Returning last version.")
          /\ ReturnFinal(draft)
  /\ UNCHANGED <<key_checks, twin_out, twin_judge, twin_agrees, api_key, user_request, category, i_internal, judge_out, judge, polished,
                 feedback, error, verdicts, presented, feedbacks, printed>>

\* main, lines 172-173: print the final story; main returns.
PrintFinal ==
  /\ pc = "print_final"
  /\ printed' = Append(printed, final_story)
  /\ last_line' = feedback
  /\ pc' = "done"
  /\ UNCHANGED <<key_checks, twin_out, twin_judge, twin_agrees, api_key, user_request, category, story, i_internal, judge_out, judge,
                 polished, i_user, feedback, final_story, error, calls, verdicts,
                 presented, feedbacks, notices>>

\* The function and the agent of the completion call the thread is about to
\* make, by position.
PendingCall ==
  [p \in {"classify", "storyteller", "judge", "revise_internal", "revise_user"} |->
     CASE p = "classify" -> <<"classify_request", "Classifier">>
       [] p = "storyteller" -> <<"generate_polished_story", "Storyteller">>
       [] p = "judge" -> <<"generate_polished_story", "Judge">>
       [] p = "revise_internal" -> <<"generate_polished_story", "Reviser">>
       [] OTHER -> <<"user_feedback_loop", "Reviser">>]

\* The record of a call that raised instead of returning.
FailedCall ==
  [Call(PendingCall[pc][1], PendingCall[pc][2],
        IF pc \in {"classify", "storyteller"} THEN NoDraft ELSE story,
        CASE pc = "revise_internal" -> InternalFeedback(judge)
          [] pc = "revise_user" -> feedback
          [] OTHER -> NoText,
        FALSE, NoDraft)
   EXCEPT !.category = IF pc = "storyteller" THEN category ELSE NoText]

\* chat_once with the exception swallowed and the call made again.
ChatOnceRaises_Retried ==
  /\ pc \in DOMAIN PendingCall
  /\ Len(calls) < 8
  /\ calls' = Append(calls, FailedCall)
  /\ UNCHANGED <<key_checks, twin_out, twin_judge, twin_agrees, pc, error, api_key, user_request, category, story, i_internal,
                 judge_out, judge, polished, i_user, feedback, final_story, verdicts,
                 presented, feedbacks, last_line, notices, printed>>

\* chat_once, lines 47-52: client.chat.completions.create raises (transport or
\* service error). Neither chat_once nor any of its callers has a try around
\* the call, so the exception leaves main and ends the run.
ChatOnceRaises ==
  /\ pc \in DOMAIN PendingCall
  /\ calls' = Append(calls, FailedCall)
  /\ error' = "APIError"
  /\ pc' = "crashed"
  /\ UNCHANGED <<key_checks, twin_out, twin_judge, twin_agrees, api_key, user_request, category, story, i_internal, judge_out, judge,
                 polished, i_user, feedback, final_story, verdicts, presented, feedbacks,
                 last_line, notices, printed>>

Next ==
  \/ \E unset \in BOOLEAN : ModuleImport(unset)
  \/ ensure_api_key
  \/ \E prompt \in PromptArgs, line \in StdinRequests : ReadRequest(prompt, line)
  \/ \E text \in ClassifierTexts : classify_request(text)
  \/ \E draft \in Drafts : Storyteller(draft)
  \/ pc = "judge" /\ \E text \in JudgeTexts : \E twin \in Twins(text) : JudgeCall(text, twin)
  \/ JudgeDecide
  \/ \E draft \in Drafts : InternalRevise(draft)
  \/ Present
  \/ \E line \in FeedbackLines : ReadFeedback(line)
  \/ \E draft \in Drafts : UserRevise(draft)
  \/ PrintFinal
  \/ ChatOnceRaises

Spec == Init /\ [][Next]_vars

\* ------------------------------------------------------- reading the logs
\* The calls made by one function with one agent's prompt, in order.
CallsOf(caller, agent) ==
  SelectSeq(calls, LAMBDA c : c.caller = caller /\ c.agent = agent)

JudgeCalls == CallsOf("generate_polished_story", "Judge")
InternalReviserCalls == CallsOf("generate_polished_story", "Reviser")
UserReviserCalls == CallsOf("user_feedback_loop", "Reviser")
StorytellerCalls == CallsOf("generate_polished_story", "Storyteller")

\* The drafts produced inside generate_polished_story, in order.
InternalDrafts ==
  SelectSeq(calls, LAMBDA c : c.caller = "generate_polished_story" /\ c.ok
                              /\ c.agent \in {"Storyteller", "Reviser"})

\* generate_polished_story has returned (main has bound polished).
InternalReturned == polished # NoDraft
\* user_feedback_loop has returned (main has bound final_story).
UserReturned == final_story # NoDraft

Last(seq) == seq[Len(seq)]

\* ------------------------------------------------------------------ claims
\* C1: one run of the Internal QC Loop performs at least one Judge call, at
\* most MAX_INTERNAL_REVISIONS + 1 Judge calls and at most
\* MAX_INTERNAL_REVISIONS Reviser calls. (The code makes one Reviser call per
\* rejecting verdict, the last one included: MAX_INTERNAL_REVISIONS + 1.)
C1_InternalCallBounds ==
  /\ Len(JudgeCalls) <= MAX_INTERNAL_REVISIONS + 1
  /\ Len(InternalReviserCalls) <= MAX_INTERNAL_REVISIONS
  /\ InternalReturned => Len(JudgeCalls) >= 1

\* C2: with non-empty feedback at every prompt (MAX_USER_REVISIONS + 1 in a
\* row) the User Feedback Loop makes exactly MAX_USER_REVISIONS Reviser calls
\* and returns the output of the last of them. (The code revises after the
\* last feedback too and returns that further revision.)
C2_UserCapExactRevisions ==
  /\ Len(UserReviserCalls) <= MAX_USER_REVISIONS
  /\ ( /\ UserReturned
       /\ Len(feedbacks) = MAX_USER_REVISIONS + 1
       /\ \A k \in DOMAIN feedbacks : feedbacks[k] # <<>> )
     => /\ Len(UserReviserCalls) = MAX_USER_REVISIONS
        /\ final_story = UserReviserCalls[MAX_USER_REVISIONS].out

\* C3: the User Feedback Loop presents a draft at most MAX_USER_REVISIONS + 1
\* times and reads one feedback per presentation; the first empty feedback
\* ends it: that feedback is the last one read, its presentation the last one
\* made, and the loop has returned.
C3_UserLoopTerminates ==
  /\ Len(presented) <= MAX_USER_REVISIONS + 1
  /\ Len(feedbacks) <= Len(presented)
  /\ Len(presented) <= Len(feedbacks) + 1
  /\ \A k \in DOMAIN feedbacks :
       feedbacks[k] = <<>> =>
         /\ k = Len(feedbacks)
         /\ k = Len(presented)
         /\ Len(UserReviserCalls) = k - 1
         /\ pc \in {"print_final", "done"}
  /\ Len(feedbacks) = MAX_USER_REVISIONS + 1
       => pc \in {"revise_user", "print_final", "done", "crashed"}

\* C3 witness: the loop ended at the empty feedback of its last allowed prompt.
C3_Witness ==
  /\ pc = "done"
  /\ Len(presented) = MAX_USER_REVISIONS + 1
  /\ Last(feedbacks) = <<>>

\* C4: a Judge response that is a JSON object with require_revision = false
\* ends the Internal QC Loop at once: it is the last verdict, no Judge or
\* Reviser call of the loop follows it, and the loop returns the draft that
\* was judged; when it is the first verdict the loop made no Reviser call and
\* returns the Storyteller's draft.
C4_AcceptReturnsJudgedDraft ==
  \A k \in DOMAIN verdicts :
    (verdicts[k].kind = "object" /\ verdicts[k].rr = "False") =>
      /\ verdicts[k].decision = "accept"
      /\ k = Len(verdicts)
      /\ Len(JudgeCalls) = k
      /\ Len(InternalReviserCalls) = k - 1
      /\ InternalReturned
      /\ polished = JudgeCalls[k].story
      /\ k = 1 => /\ InternalReviserCalls = <<>>
                  /\ polished = StorytellerCalls[1].out

\* C4 witness: the second verdict is require_revision = false and the run went
\* on to its end.
C4_Witness ==
  /\ pc = "done"
  /\ Len(verdicts) = 2
  /\ verdicts[2].kind = "object" /\ verdicts[2].rr = "False"

\* The kinds of Judge response that are not valid JSON.
NotValidJson == {"not_json", "lenient"}

\* C5: for a Judge response that is not valid JSON, parse_judge yields a
\* Verdict with require_revision = true and a non-empty required_changes list,
\* and the loop goes on to revise: no error comes out of the parse. (The code
\* does so for the texts json.loads rejects; NaN, Infinity and -Infinity are
\* not JSON and json.loads returns floats for them.)
C5_NotJsonYieldsFallback ==
  /\ \A k \in DOMAIN verdicts :
       verdicts[k].kind \in NotValidJson =>
         /\ verdicts[k].decision = "revise"
         /\ verdicts[k].rr = "True"
  /\ (verdicts # <<>> /\ Last(verdicts).kind \in NotValidJson /\ ~InternalReturned) =>
       /\ error # "AttributeError"
       /\ judge # Unset
       /\ judge.t = "dict"
       /\ "require_revision" \in DOMAIN judge.d
       /\ judge.d["require_revision"] = PyBool(TRUE)
       /\ "required_changes" \in DOMAIN judge.d
       /\ judge.d["required_changes"].t = "list"
       /\ judge.d["required_changes"].l # <<>>

\* C6: whatever the Judge response is, the step from the response to the
\* accept/revise decision never fails. (A JSON value that is not an object has
\* no get: line 143 raises AttributeError.)
C6_DecisionNeverFails ==
  /\ error # "AttributeError"
  /\ \A k \in DOMAIN verdicts : verdicts[k].decision \in {"accept", "revise"}

\* C7: when the first k - 1 verdicts require revision and the k-th accepts,
\* the loop returns after exactly k Judge calls and k - 1 Reviser calls, each
\* Judge call after the first judging the preceding Reviser's output, and the
\* draft returned is the output of the (k - 1)-th Reviser call (the
\* Storyteller's draft when k = 1).
C7_AcceptAtKthVerdict ==
  \A k \in DOMAIN verdicts :
    ( /\ verdicts[k].decision = "accept"
      /\ \A j \in 1..(k - 1) : verdicts[j].decision = "revise" ) =>
      LET judged == JudgeCalls
          revisions == InternalReviserCalls
          first == StorytellerCalls[1].out
      IN /\ k <= MAX_INTERNAL_REVISIONS + 1
         /\ InternalReturned
         /\ Len(judged) = k
         /\ Len(revisions) = k - 1
         /\ \A j \in 1..(k - 1) :
              /\ revisions[j].story = judged[j].story
              /\ revisions[j].feedback = JudgeFeedback
              /\ judged[j + 1].story = revisions[j].out
         /\ judged[1].story = first
         /\ polished = IF k = 1 THEN first ELSE revisions[k - 1].out

\* C7 witness: the Judge rejected the Storyteller's draft, accepted the
\* Reviser's different draft, and the loop has returned.
C7_Witness ==
  /\ InternalReturned
  /\ Len(verdicts) = 2
  /\ verdicts[1].decision = "revise" /\ verdicts[2].decision = "accept"
  /\ StorytellerCalls[1].out # InternalReviserCalls[1].out

\* The characters of a line are all whitespace (the empty line included).
AllWhitespace(line) == \A n \in DOMAIN line : line[n] \in Whitespace

\* C8: when the line read at a prompt is empty or whitespace-only the loop
\* returns the draft just presented with no Reviser call for that response;
\* at the first prompt that is the loop's input draft, after one presentation
\* and zero Reviser calls.
C8_EmptyFeedbackAccepts ==
  (feedbacks # <<>> /\ AllWhitespace(last_line)) =>
    /\ pc \in {"print_final", "done"}
    /\ Last(feedbacks) = <<>>
    /\ Len(presented) = Len(feedbacks)
    /\ final_story = Last(presented)
    /\ Len(UserReviserCalls) = Len(feedbacks) - 1
    /\ Last(notices) = "Final story accepted."
    /\ Len(feedbacks) = 1 =>
         /\ final_story = polished
         /\ Len(presented) = 1
         /\ UserReviserCalls = <<>>

\* C8 witness: a line holding only a carriage return, typed at the second
\* prompt, ended the loop with a revised draft other than the loop's input.
C8_Witness ==
  /\ pc = "print_final"
  /\ Len(feedbacks) = 2
  /\ last_line = <<"\r">>
  /\ final_story # polished

\* C9: the Internal QC Loop returns the first draft the Judge accepts; when
\* every verdict up to the bound requires revision it returns the last draft
\* produced by the Storyteller or the Reviser.
C9_ReturnsAcceptedOrLast ==
  InternalReturned =>
    /\ verdicts # <<>>
    /\ \A j \in 1..(Len(verdicts) - 1) : verdicts[j].decision = "revise"
    /\ IF Last(verdicts).decision = "accept"
       THEN /\ polished = JudgeCalls[Len(verdicts)].story
            /\ polished = Last(InternalDrafts).out
       ELSE LET last == Last(InternalDrafts)
            IN /\ Last(verdicts).decision = "revise"
               /\ Len(verdicts) = MAX_INTERNAL_REVISIONS + 1
               /\ last.agent = "Reviser"
               /\ polished = last.out

\* C9 witness: every verdict required revision and the draft returned differs
\* from both earlier drafts.
C9_Witness ==
  /\ InternalReturned
  /\ Len(verdicts) = MAX_INTERNAL_REVISIONS + 1
  /\ \A j \in DOMAIN verdicts : verdicts[j].decision = "revise"
  /\ polished # StorytellerCalls[1].out

\* C10: a completion call that raises ends the run there: the failed call is
\* the last call made (no retry, no later call), nothing is presented after
\* it and no final story is printed.
C10_ChatErrorEndsRun ==
  /\ \A n \in DOMAIN calls : ~calls[n].ok => n = Len(calls)
  /\ (calls # <<>> /\ ~Last(calls).ok) =>
       /\ pc = "crashed"
       /\ error = "APIError"
       /\ printed = <<>>
       /\ final_story = NoDraft
       /\ Len(presented) = Len(feedbacks)
       /\ Last(calls).caller # "user_feedback_loop" => presented = <<>>

\* C10 witness: the Reviser call of the User Feedback Loop raised.
C10_Witness ==
  /\ calls # <<>>
  /\ ~Last(calls).ok
  /\ Last(calls).caller = "user_feedback_loop"
  /\ pc = "crashed"

\* C11: with the credential absent the run halts with a fatal error before
\* any completion call, presentation or print; ensure_api_key runs once, and
\* every completion call is made after it has run with the credential present.
C11_NoCallWithoutCredential ==
  /\ key_checks <= 1
  /\ (calls # <<>> \/ pc \notin {"import", "main", "crashed"}) =>
       (api_key /\ key_checks = 1)
  /\ ~api_key =>
       /\ calls = <<>> /\ presented = <<>> /\ printed = <<>>
       /\ pc \in {"import", "main", "crashed"}
       /\ key_checks = 1 => (pc = "crashed" /\ error = "EnvironmentError")
       /\ pc = "crashed" => error \in {"EnvironmentError", "OpenAIError"}

\* C11 witness: ensure_api_key found no credential and ended the run.
C11_Witness ==
  /\ ~api_key
  /\ key_checks = 1
  /\ pc = "crashed"
  /\ error = "EnvironmentError"

\* The Classifier returned a name outside the listed categories.
OutOfSetCategory == category # NoText /\ category \notin Categories

\* The decision lines 142-145 take for a Judge response of each kind.
UsualDecision(entry) ==
  CASE entry.kind = "not_json" -> entry.decision = "revise"
    [] entry.rr = "n/a" -> entry.decision = "AttributeError"
    [] entry.rr \in {"False", "absent"} -> entry.decision = "accept"
    [] entry.rr = "True" -> entry.decision = "revise"
    [] OTHER -> entry.decision \in {"accept", "revise"}

\* C12: a Classifier response outside the listed categories does not make the
\* pipeline fail: the name reaches the Storyteller's prompt as it is, exactly
\* one Storyteller call is made and yields a draft, that draft is the first
\* one judged and the Internal QC Loop decides on every Judge response as
\* usual; the run ends abnormally only for a raising call or verdict test.
C12_OutOfSetCategoryPassesThrough ==
  OutOfSetCategory =>
    LET told == StorytellerCalls
        judged == JudgeCalls
    IN
    /\ Len(told) <= 1
    /\ \A n \in DOMAIN told : told[n].category = category
    /\ pc \notin {"storyteller", "crashed"} =>
         /\ Len(told) = 1
         /\ told[1].ok
         /\ told[1].out \in Drafts
    /\ judged # <<>> => judged[1].story = told[1].out
    /\ \A k \in DOMAIN verdicts : UsualDecision(verdicts[k])
    /\ Len(judged) <= MAX_INTERNAL_REVISIONS + 1
    /\ pc = "crashed" =>
         \/ error = "APIError" /\ ~Last(calls).ok
         \/ error = "AttributeError" /\ Last(verdicts).decision = "AttributeError"

\* C12 witness: with the category space-opera the run went through two Judge
\* verdicts and on to its end.
C12_Witness ==
  /\ category = <<"s", "p", "a", "c", "e", "-", "o", "p", "e", "r", "a">>
  /\ OutOfSetCategory
  /\ Len(verdicts) = 2
  /\ pc = "done"

\* C13 (as stated): with the default limits a full run makes at most 6
\* completion calls.
C13_AtMostSixCalls == Len(calls) <= 6

\* The most completion calls one run can make: Classifier, Storyteller, a
\* Judge and a Reviser call in each iteration of line 140, and a Reviser call
\* in each iteration of line 150.
MaxCallsPerRun ==
  2 + 2 * (MAX_INTERNAL_REVISIONS + 1) + (MAX_USER_REVISIONS + 1)

\* C13 (amended): with the default limits (1 and 2) a full run makes at most
\* 9 completion calls: 1 Classifier, 1 Storyteller, at most 2 Judge, at most
\* 2 Reviser calls of the Internal QC Loop and at most 3 of the User Feedback
\* Loop.
C13_AtMostNineCalls ==
  /\ MaxCallsPerRun = 9
  /\ Len(calls) <= MaxCallsPerRun
  /\ Len(CallsOf("classify_request", "Classifier")) <= 1
  /\ Len(StorytellerCalls) <= 1
  /\ Len(JudgeCalls) <= MAX_INTERNAL_REVISIONS + 1
  /\ Len(InternalReviserCalls) <= MAX_INTERNAL_REVISIONS + 1
  /\ Len(UserReviserCalls) <= MAX_USER_REVISIONS + 1

\* C13 witness: a run that ended normally after 9 calls that all returned.
C13_Witness ==
  /\ pc = "done"
  /\ Len(calls) = MaxCallsPerRun
  /\ \A n \in DOMAIN calls : calls[n].ok

\* All calls of generate_polished_story (and of classify_request, which it
\* calls) come before every call of user_feedback_loop.
InternalCallsFirst ==
  \A n \in 1..(Len(calls) - 1) :
    calls[n].caller = "user_feedback_loop" =>
      calls[n + 1].caller = "user_feedback_loop"

\* C14: no draft is presented and no feedback is read before the Internal QC
\* Loop has ended (in an accepting verdict, or with every allowed verdict
\* rejecting); the first draft presented is the last draft that loop produced,
\* which it returned; and once a draft is presented the thread is never again
\* at a Judge call, every call made from then on being a Reviser call of the
\* User Feedback Loop.
C14_PresentAfterInternalLoop ==
  LET JudgeCalls_ == JudgeCalls IN
  /\ Len(feedbacks) <= Len(presented)
  /\ Len(UserReviserCalls) <= Len(feedbacks)
  /\ InternalCallsFirst
  /\ presented # <<>> =>
       /\ InternalReturned
       /\ verdicts # <<>>
       /\ \/ Last(verdicts).decision = "accept"
          \/ /\ Len(verdicts) = MAX_INTERNAL_REVISIONS + 1
             /\ \A k \in DOMAIN verdicts : verdicts[k].decision = "revise"
       /\ presented[1] = polished
       /\ presented[1] = Last(InternalDrafts).out
       /\ Len(JudgeCalls_) = Len(verdicts)
       /\ \A n \in DOMAIN JudgeCalls_ : JudgeCalls_[n].ok
       /\ pc \in {"feedback", "revise_user", "present", "print_final", "done", "crashed"}
       /\ pc = "crashed" => Last(calls).caller = "user_feedback_loop"

\* C14 witness: the draft of the second internal revision, other than the
\* Storyteller's, was presented first, and a revision of it second.
C14_Witness ==
  /\ Len(presented) = 2
  /\ Len(InternalReviserCalls) = 2
  /\ presented[1] # StorytellerCalls[1].out
  /\ presented[2] # presented[1]

\* C15: in the User Feedback Loop every draft the Reviser produces is
\* presented and a feedback is read for it before the loop can return it: the
\* loop returns the draft last presented, one the user was asked about. (The
\* Reviser call of the last iteration is followed by the return, not by a
\* presentation.)
C15_EveryRevisionPresented ==
  /\ pc = "present" => Len(presented) = Len(UserReviserCalls)
  /\ UserReturned =>
       /\ Len(presented) = Len(UserReviserCalls) + 1
       /\ Len(feedbacks) = Len(presented)
       /\ final_story = Last(presented)

\* C16: with the credential present and every completion call returning, a
\* run does not end abnormally: it ends having printed exactly one final
\* story, the draft user_feedback_loop returned. (A Judge response that is
\* JSON but no object ends the run in AttributeError before any print.)
C16_RunEndsWithFinalStory ==
  /\ Len(printed) <= 1
  /\ pc = "done" => (UserReturned /\ printed = <<final_story>>)
  /\ (api_key /\ \A n \in DOMAIN calls : calls[n].ok) => pc # "crashed"

\* The Verdict of a log entry requires revision: the fallback Verdict, or a
\* dict whose require_revision is true (or another true value).
RequiresRevision(entry) ==
  \/ entry.rr = "True"
  \/ entry.rr = "other" /\ entry.decision = "revise"

RejectingVerdicts == SelectSeq(verdicts, RequiresRevision)

\* The calls made inside generate_polished_story after the Classifier's.
LoopCalls == SelectSeq(calls, LAMBDA c : c.caller = "generate_polished_story")

\* C17: every Verdict that requires revision, the one from the last allowed
\* Judge call included, is followed by exactly one Reviser call on the draft
\* just judged; when the loop has ended the Reviser calls are as many as the
\* rejecting Verdicts, and on exhaustion the draft returned is the output of a
\* Reviser call made after the last Judge call.
C17_ReviserAfterEveryRejection ==
  LET revisions == InternalReviserCalls
      judged == JudgeCalls
      rejections == Len(RejectingVerdicts)
  IN /\ Len(revisions) <= rejections
     /\ rejections <= Len(revisions) + 1
     /\ rejections = Len(revisions) + 1 => pc = "revise_internal"
     /\ \A k \in DOMAIN revisions :
          /\ RequiresRevision(verdicts[k])
          /\ revisions[k].story = judged[k].story
     /\ InternalReturned => Len(revisions) = rejections
     /\ (InternalReturned /\ RequiresRevision(Last(verdicts))) =>
          /\ Len(judged) = MAX_INTERNAL_REVISIONS + 1
          /\ Len(revisions) = MAX_INTERNAL_REVISIONS + 1
          /\ Last(LoopCalls).agent = "Reviser"
          /\ Last(LoopCalls).story = Last(judged).story
          /\ polished = Last(LoopCalls).out

\* C17 witness: the loop ended on its last allowed verdict, a rejecting one,
\* and returned a draft other than the one that verdict was about.
C17_Witness ==
  /\ InternalReturned
  /\ Len(verdicts) = MAX_INTERNAL_REVISIONS + 1
  /\ RequiresRevision(Last(verdicts))
  /\ polished # Last(JudgeCalls).story

\* The JSON object with no members.
EmptyObjectText == <<P("{"), P("}")>>

\* C18: a Judge response that is a JSON object without a require_revision
\* key, the empty object included, counts as acceptance: the loop returns
\* the draft that was judged, with no Reviser call for that verdict and no
\* Judge call after it.
C18_MissingKeyAccepts ==
  /\ (pc = "parse_judge" /\ judge_out = EmptyObjectText) =>
       /\ parse_judge(judge_out) = PyDict(<<>>)
       /\ Decision(parse_judge(judge_out)) = "accept"
  /\ \A k \in DOMAIN verdicts :
       (verdicts[k].kind = "object" /\ verdicts[k].rr = "absent") =>
         /\ verdicts[k].decision = "accept"
         /\ InternalReturned
         /\ Len(verdicts) = k
         /\ Len(RejectingVerdicts) = k - 1
         /\ Len(InternalReviserCalls) = k - 1
         /\ Last(LoopCalls).agent = "Judge"
         /\ polished = Last(LoopCalls).story

\* C18 witness: the first verdict had no require_revision key and the run
\* went on to present the Storyteller's draft.
C18_Witness ==
  /\ verdicts # <<>>
  /\ verdicts[1].rr = "absent"
  /\ presented # <<>>
  /\ presented[1] = StorytellerCalls[1].out

\* C19: of a Verdict only the truth value of require_revision reaches the
\* rest of the run. A second run that gets, at every Judge call, a Verdict
\* with the same require_revision and one more member (required_changes,
\* safety_flags or summary) takes the same decisions and sends the Reviser the
\* same request, draft and feedback; the feedback is always the fixed text
\* "Apply judge feedback" and the draft is the one just judged.
C19_OnlyRequireRevisionMatters ==
  /\ twin_agrees
  /\ pc = "revise_internal" =>
       /\ Decision(twin_judge) = Decision(judge)
       /\ ReviserInput(twin_judge) = ReviserInput(judge)
       /\ ReviserInput(judge).feedback = JudgeFeedback
       /\ ReviserInput(judge).story = Last(JudgeCalls).story
  /\ \A n \in DOMAIN calls :
       (calls[n].caller = "generate_polished_story" /\ calls[n].agent = "Reviser") =>
         /\ calls[n].feedback = JudgeFeedback
         /\ calls[n - 1].agent = "Judge"
         /\ calls[n].story = calls[n - 1].story

\* C19 witness: a Reviser call was made on a rejecting Verdict whose twin had
\* one more member, and the loop went on to its next Judge call.
C19_Witness ==
  /\ pc = "judge"
  /\ Len(InternalReviserCalls) = 1
  /\ HasGet(judge) /\ HasGet(twin_judge)
  /\ twin_judge # judge
  /\ "required_changes" \in DOMAIN twin_judge.d
  /\ "required_changes" \notin DOMAIN judge.d

====
